---- MODULE Spec2Model ----
(***************************************************************************)
(* The batched rewriting job of aigc/rewrite_tiktok_ds.py (main), run as a *)
(* child process by aigc/rewriter_core.py (Rewriter.run) on behalf of      *)
(* services/aigc/aigc_service.py (AIGCService.process_files).              *)
(*                                                                         *)
(* The completion provider and the file system are the environment: a      *)
(* request either raises or returns a text, a write either succeeds or     *)
(* raises.  A response text is kept by what the job reads of it: whether   *)
(* it is empty or blank, whether it parses, and the shape of the parsed    *)
(* value (is it an object, which of the keys tts/caption it has, what its  *)
(* `variants` member is).                                                  *)
(***************************************************************************)
EXTENDS Integers, Sequences, FiniteSets, TLC

\* ---------------------------------------------------------------- bounds
MaxTotal == 3
MaxPerReq == 2
MaxRetries == 1

\* ------------------------------------------------------- small helpers
Min(a, b) == IF a <= b THEN a ELSE b
Max(a, b) == IF a >= b THEN a ELSE b

VARIABLES
    cfg,                   \* the command line and the environment of the job
    pc,                    \* position of main
    failReason,            \* why main raised ("none" while it has not)
    made,
    batch_index,
    global_variant_index,
    k,
    attempt,
    raw,
    data,
    variants,
    todo,                  \* the items the write loop has not visited yet
    files,                 \* the output files of this job
    writeLog,              \* every write_text that succeeded, in order
    batchSizes,            \* the k of every batch, in order
    requests,              \* completion requests issued by the job
    batchReqs,             \* completion requests issued for the current batch
    inFlight,              \* completion requests issued and not yet answered
    exitStatus,            \* <<>> or <<status of the CLI process>>
    runResult,             \* <<>> or <<value returned by Rewriter.run>>
    runRaised,             \* Rewriter.run raised before the child started
    processResult,         \* <<>> or <<value returned by process_files>>
    step,                  \* the text function applied last ("off": none is under study)
    input,                 \* the text(s) the function under study is applied to
    output,                \* what the functions applied so far returned
    scfg,                  \* the arguments of call_stream that the printer reads
    spc,                   \* position of call_stream ("off": no stream is under study)
    delta,                 \* the delta of the chunk being handled
    received,              \* the deltas of this request, in arrival order
    nchunks,               \* chunks received by all requests so far
    streamReqs,            \* calls of call_stream so far
    sp,                    \* the StreamPrinter of this request
    logfile,               \* the text of the transcript file
    stdout,                \* what the printer wrote to the display, write by write
    now,                   \* the clock when it was last read, in milliseconds
    content_buf,
    returned,              \* <<>> or <<text returned by call_stream>>
    rpc,                   \* position of Rewriter.run ("off": no run is under study)
    rerr,                  \* what made run raise ("none" while it has not)
    proc,                  \* self._proc: "none" or "set"
    child,                 \* the child process: "none", "running", "exited", "killed"
    outLeft,               \* lines the child has still to write to its stdout
    errLeft,               \* lines the child has still to write to its stderr
    outBuf,                \* lines in the stdout pipe
    errBuf,                \* lines in the stderr pipe
    childCode,             \* the status the child exits with when left alone
    err_accum,             \* lines of stderr that run collected
    retcode,               \* `code`: <<>> or <<value of self._proc.wait()>>
    stopPc,                \* position of Rewriter.stop in the other thread
    msg_q,                 \* what the callbacks and the worker put, not yet taken
    running,               \* App.running
    ui,                    \* what the UI thread does: "idle" or "polling"
    wpc,                   \* position of _runner ("none": no worker thread)
    lastClick,             \* what the last click on Start came to
    jobs                   \* worker threads started so far

vars == <<cfg, pc, failReason, made, batch_index, global_variant_index, k,
          attempt, raw, data, variants, todo, files, writeLog, batchSizes,
          requests, batchReqs, inFlight, exitStatus, runResult,
          runRaised, processResult, step, input, output, scfg, spc, delta,
          received, nchunks, streamReqs, sp, logfile, stdout, now, content_buf,
          returned, rpc, rerr, proc, child, outLeft, errLeft, outBuf, errBuf,
          childCode, err_accum, retcode, stopPc, msg_q, running, ui, wpc, lastClick,
          jobs>>

textVars == <<step, input, output>>
streamVars == <<scfg, spc, delta, received, nchunks, streamReqs, sp, logfile, stdout, now,
                content_buf, returned>>
pipeVars == <<rpc, rerr, proc, child, outLeft, errLeft, outBuf, errBuf, childCode, err_accum,
              retcode, stopPc, msg_q>>
guiVars == <<running, ui, wpc, lastClick, jobs>>
embedVars == <<pipeVars, guiVars>>
sideVars == <<textVars, streamVars, embedVars>>

\* A field of a delta: None, or a text (which may be empty).
None == [none |-> TRUE, text |-> <<>>]
Str(t) == [none |-> FALSE, text |-> t]

\* No stream is under study.
NoStream ==
    /\ scfg = [stream_style |-> "compact", show_reasoning |-> TRUE, stream_log |-> FALSE]
    /\ spc = "off"
    /\ delta = [reasoning_content |-> None, content |-> None]
    /\ received = <<>>
    /\ nchunks = 0
    /\ streamReqs = 0
    /\ sp = [mode |-> "compact", buf |-> <<>>, last_flush |-> 0]
    /\ logfile = <<>>
    /\ stdout = <<>>
    /\ now = 0
    /\ content_buf = <<>>
    /\ returned = <<>>

\* No Rewriter.run and no Tkinter host is under study.
NoEmbed ==
    /\ rpc = "off"
    /\ rerr = "none"
    /\ proc = "none"
    /\ child = "none"
    /\ outLeft = 0
    /\ errLeft = 0
    /\ outBuf = 0
    /\ errBuf = 0
    /\ childCode = 0
    /\ err_accum = 0
    /\ retcode = <<>>
    /\ stopPc = "off"
    /\ msg_q = <<>>
    /\ running = FALSE
    /\ ui = "idle"
    /\ wpc = "none"
    /\ lastClick = "none"
    /\ jobs = 0

\* ------------------------------------------------------ parsed values
Keys == {"tts", "caption"}

NoData == [kind |-> "unbound", keys |-> {}, vkind |-> "absent", vlen |-> 0, badAt |-> 0]
NonDict == [kind |-> "nondict", keys |-> {}, vkind |-> "absent", vlen |-> 0, badAt |-> 0]
Dict(ks, vk, n, b) == [kind |-> "dict", keys |-> ks, vkind |-> vk, vlen |-> n, badAt |-> b]

\* The values a response may parse to when k variants were asked for: a
\* non-object, or an object with any of the keys tts/caption whose `variants`
\* is absent, not a list, or a list of 0..k+1 items of which at most one (at
\* position badAt) is not an object.
JsonValues(n) ==
    {NonDict}
    \cup {Dict(ks, vk, 0, 0) : ks \in SUBSET Keys, vk \in {"absent", "notlist"}}
    \cup {Dict(ks, "list", len, 0) : ks \in {{}, {"caption"}}, len \in 0..(n + 1)}
    \cup {Dict({}, "list", len, 1) : len \in 1..(n + 1)}
    \cup {Dict({}, "list", len, len) : len \in 2..(n + 1)}

\* data["variants"] as a list of items; item i of a response is distinct from
\* every other item of it.
VariantsOf(d) == [i \in 1..d.vlen |-> [id |-> i, ok |-> (i # d.badAt)]]
\* data itself used as the only item (k == 1, single object).
TopItem == [id |-> 0, ok |-> TRUE]

\* ------------------------------------------------------- response texts
EmptyText == [kind |-> "empty", val |-> NoData]
Texts(n) ==
    {EmptyText, [kind |-> "blank", val |-> NoData], [kind |-> "garbage", val |-> NoData]}
    \cup {[kind |-> "json", val |-> v] : v \in JsonValues(n)}

\* Faulty variant: the text is tested without strip().
IsBlank_NoStrip(r) == r.kind = "empty"

\* `not raw.strip()`
IsBlank(r) == r.kind \in {"empty", "blank"}

\* robust_parse_json on a response text: the parsed value, or a raise.
robust_parse_json(r) ==
    IF r.kind = "json" THEN [ok |-> TRUE, val |-> r.val]
    ELSE [ok |-> FALSE, val |-> NoData]

\* Faulty variant: only an unset variable is rejected, an empty one is used.
ApiKeyMissing_OnlyUnset(key) == key = "unset"

\* ------------------------------------------------- main: configuration
\* `if not api_key` on os.environ.get("DEEPSEEK_API_KEY")
ApiKeyMissing(key) == key \in {"unset", "empty"}

\* `if args.tts and not args.no_tts`: the TTS file is read
TtsRequested(c) == c.tts # "none"

\* `if tts_src and tts_dir` in the write loop: a TTS file was read and its
\* stripped text is not empty
TtsMode(c) == c.tts = "text"

\* per_req = max(1, args.variants_per_request)
PerReq(vpr) == Max(1, vpr)

\* Faulty variant: the loop runs once more when the total is reached.
LoopContinues_Inclusive(m, total) == m <= total

\* while made < total_needed
LoopContinues(m, total) == m < total

\* Faulty variant: the last batch is not made smaller.
BatchSize_NoRemainder(per_req, total, m) == per_req

\* k = min(per_req, total_needed - made)
BatchSize(per_req, total, m) == Min(per_req, total - m)

\* for attempt in range(args.retries + 1)
InRange(a, retries) == a < retries + 1

\* Faulty variant: one retry too many.
GiveUp_OffByOne(a, retries) == a > retries

\* `if attempt >= args.retries: raise` in the except clause
GiveUp(a, retries) == a >= retries

\* Faulty variants: the index skips a number; the index is not advanced.
NextIndex_Skip(g) == g + 2
NextIndex_Stuck(g) == g

\* global_variant_index += 1
NextIndex(g) == g + 1

\* Faulty variant: a batch counts as one variant.
MadeAfter_One(m, vs) == m + 1

\* made += len(variants)
MadeAfter(m, vs) == m + Len(vs)

\* Faulty variant: an overlong `variants` array is accepted whole.
NormalizeVariants_NoTrim(d, n) ==
    IF d.kind = "dict" /\ d.vkind = "list" /\ d.vlen >= n
    THEN [ok |-> TRUE, err |-> "none", variants |-> VariantsOf(d)]
    ELSE [ok |-> FALSE, err |-> "shape", variants |-> <<>>]

\* Faulty variant: an array that is too short is used as it is.
NormalizeVariants_Underlong(d, n) ==
    IF d.kind = "dict" /\ d.vkind = "list"
    THEN [ok |-> TRUE, err |-> "none", variants |-> SubSeq(VariantsOf(d), 1, Min(n, d.vlen))]
    ELSE [ok |-> FALSE, err |-> "shape", variants |-> <<>>]

\* ----------------------------------------------------- shape validation
\* Lines 424-443: the list of variants of a batch of k, or a raise.  Reading
\* `data` when no attempt ever bound it raises as well.
NormalizeVariants(d, n) ==
    IF d.kind = "unbound" THEN [ok |-> FALSE, err |-> "unbound", variants |-> <<>>]
    ELSE IF n = 1 THEN
        IF d.kind = "dict" /\ d.keys # {}
            THEN [ok |-> TRUE, err |-> "none", variants |-> <<TopItem>>]
        ELSE IF d.kind = "dict" /\ d.vkind = "list" /\ d.vlen >= 1
            THEN [ok |-> TRUE, err |-> "none", variants |-> SubSeq(VariantsOf(d), 1, 1)]
        ELSE [ok |-> FALSE, err |-> "shape", variants |-> <<>>]
    ELSE
        IF ~(d.kind = "dict" /\ d.vkind = "list")
            THEN [ok |-> FALSE, err |-> "shape", variants |-> <<>>]
        ELSE IF d.vlen # n THEN
            IF d.vlen > n
                THEN [ok |-> TRUE, err |-> "none", variants |-> SubSeq(VariantsOf(d), 1, n)]
                ELSE [ok |-> FALSE, err |-> "shape", variants |-> <<>>]
        ELSE [ok |-> TRUE, err |-> "none", variants |-> VariantsOf(d)]

\* ------------------------------------------------------------ the files
\* The decimal digits of a number n >= 0, as str.format writes them.
DigitChars == <<"0", "1", "2", "3", "4", "5", "6", "7", "8", "9">>

RECURSIVE Decimal(_)
Decimal(n) ==
    IF n < 10 THEN <<DigitChars[n + 1]>>
    ELSE Decimal(n \div 10) \o <<DigitChars[(n % 10) + 1]>>

\* Faulty variant: the index is written without padding.
Pad2_None(n) == Decimal(n)

\* f"{n:02d}": zeros in front until there are two digits
Pad2(n) == IF Len(Decimal(n)) < 2 THEN <<"0">> \o Decimal(n) ELSE Decimal(n)

\* f"variant_{idx}_tts.txt" and f"variant_{idx}_caption.txt", as the pieces
\* of the name: the prefix, the digits, the separator, the kind, the suffix.
FileName(idx, kind) == <<"variant_">> \o Pad2(idx) \o <<"_", kind, ".txt">>

\* A file the job writes: the TTS files are in the directory of the TTS
\* source, the caption files in the directory of the caption source.
OutFile(idx, kind) == [idx |-> idx, kind |-> kind, name |-> FileName(idx, kind)]

\* Path.write_text: the file of that name in that directory is created, or its
\* content replaced.
WriteText(fs, idx, kind, content) ==
    {f \in fs : ~(f.kind = kind /\ f.name = FileName(idx, kind))}
    \cup {[idx |-> idx, kind |-> kind, name |-> FileName(idx, kind), content |-> content]}

\* What a write_text that raised may leave in the file it opened.
Truncated == <<>>

\* The text written for an item: the text of item `id` of the response that
\* batch b accepted.
Content(b, item) == <<b, item.id>>

\* ------------------------------------------------------------ the hosts
\* Faulty variant: the script catches its errors and returns normally.
ExitStatus_Zero(p) == 0

\* An uncaught exception ends the interpreter with status 1, a return of
\* main with status 0.
ExitStatus(p) == IF p = "done" THEN 0 ELSE 1

\* process_files: return exit_code == 0
ProcessOk(code) == code = 0

\* ------------------------------------------------------------------ Init
\* The command lines and environments a job is started with.  argparse takes
\* any integer for --num, --variants-per-request and --retries.
Configs ==
    [num : (0 - 1)..MaxTotal,
     vpr : 0..MaxPerReq,
     retries : (0 - 1)..MaxRetries,
     apiKey : {"unset", "empty", "set"},
     capOk : BOOLEAN,
     tts : {"none", "unreadable", "empty", "text"}]

\* The job of the specification's example: -n 5 --variants-per-request 2.
ExampleConfigs ==
    [num : {5}, vpr : {2}, retries : 0..MaxRetries, apiKey : {"set"}, capOk : {TRUE},
     tts : {"none", "text"}]

Init ==
    /\ cfg \in Configs \cup ExampleConfigs
    /\ pc = "start"
    /\ failReason = "none"
    /\ made = 0
    /\ batch_index = 0
    /\ global_variant_index = 0
    /\ k = 0
    /\ attempt = 0
    /\ raw = EmptyText
    /\ data = NoData
    /\ variants = <<>>
    /\ todo = <<>>
    /\ files = {}
    /\ writeLog = <<>>
    /\ batchSizes = <<>>
    /\ requests = 0
    /\ batchReqs = 0
    /\ inFlight = 0
    /\ exitStatus = <<>>
    /\ runResult = <<>>
    /\ runRaised = FALSE
    /\ processResult = <<>>
    /\ step = "off"
    /\ input = <<>>
    /\ output = <<>>
    /\ NoStream
    /\ NoEmbed

hostVars == <<exitStatus, runResult, runRaised, processResult>>
loopVars == <<made, batch_index, global_variant_index, k, attempt, raw, data, variants, todo>>
ioVars == <<files, writeLog, requests, batchReqs, inFlight>>

\* main raises: the exception is not caught anywhere in the script.
Raise(reason) ==
    /\ pc' = "failed"
    /\ failReason' = reason

\* ------------------------------------------------------------- actions
\* Rewriter.run cannot start the child (_build_cmd or Popen raises).
LaunchFails ==
    /\ pc = "start"
    /\ ~runRaised
    /\ pc' = "nolaunch"
    /\ runRaised' = TRUE
    /\ UNCHANGED <<cfg, sideVars, failReason, loopVars, ioVars, batchSizes, exitStatus, runResult, processResult>>

\* Lines 282-303: the credential and the input files.
Setup ==
    /\ pc = "start"
    /\ IF ApiKeyMissing(cfg.apiKey) THEN Raise("nokey")
       ELSE IF ~cfg.capOk THEN Raise("nocaption")
       ELSE IF TtsRequested(cfg) /\ cfg.tts = "unreadable" THEN Raise("notts")
       ELSE pc' = "pending" /\ failReason' = failReason
    /\ UNCHANGED <<cfg, sideVars, loopVars, ioVars, batchSizes, hostVars>>

\* Lines 385-396: the head of the while loop.
LoopHead ==
    /\ pc = "pending"
    /\ IF LoopContinues(made, cfg.num)
       THEN /\ k' = BatchSize(PerReq(cfg.vpr), cfg.num, made)
            /\ batch_index' = batch_index + 1
            /\ batchSizes' = Append(batchSizes, k')
            /\ raw' = EmptyText
            /\ attempt' = 0
            /\ batchReqs' = 0
            /\ pc' = "requesting"
       ELSE /\ pc' = "done"
            /\ UNCHANGED <<k, batch_index, batchSizes, raw, attempt, batchReqs>>
    /\ UNCHANGED <<cfg, sideVars, failReason, made, global_variant_index, data, variants, todo,
                   files, writeLog, requests, inFlight, hostVars>>

\* Lines 397-413: one iteration of the for loop sends a completion request.
IssueRequest ==
    /\ pc = "requesting"
    /\ InRange(attempt, cfg.retries)
    /\ requests' = requests + 1
    /\ batchReqs' = batchReqs + 1
    /\ inFlight' = inFlight + 1
    /\ pc' = "awaiting"
    /\ UNCHANGED <<cfg, sideVars, failReason, loopVars, files, writeLog, batchSizes, hostVars>>

\* The for loop ends without a break: control falls to line 424.
ForExhausted ==
    /\ pc = "requesting"
    /\ ~InRange(attempt, cfg.retries)
    /\ pc' = "validating"
    /\ UNCHANGED <<cfg, sideVars, failReason, loopVars, ioVars, batchSizes, hostVars>>

\* Lines 419-422: the except clause of the for loop.
HandleFailure ==
    IF GiveUp(attempt, cfg.retries)
    THEN Raise("retries") /\ attempt' = attempt
    ELSE pc' = "requesting" /\ attempt' = attempt + 1 /\ failReason' = failReason

\* call_stream / call_no_stream raises.
ReceiveException ==
    /\ pc = "awaiting"
    /\ inFlight' = inFlight - 1
    /\ HandleFailure
    /\ UNCHANGED <<cfg, sideVars, made, batch_index, global_variant_index, k, raw, data, variants,
                   todo, files, writeLog, batchSizes, requests, batchReqs,
                   hostVars>>

\* call_stream / call_no_stream returns the text of the completion.
ReceiveText ==
    /\ pc = "awaiting"
    /\ \E t \in Texts(k) :
        /\ raw' = t
        /\ inFlight' = inFlight - 1
        /\ pc' = "received"
    /\ UNCHANGED <<cfg, sideVars, failReason, made, batch_index, global_variant_index, k, attempt,
                   data, variants, todo, files, writeLog, batchSizes, requests, batchReqs, hostVars>>

\* Lines 415-416: `if not raw.strip(): raise`, inside the try.
CheckEmpty ==
    /\ pc = "received"
    /\ IF IsBlank(raw)
       THEN HandleFailure
       ELSE pc' = "parsing" /\ UNCHANGED <<attempt, failReason>>
    /\ UNCHANGED <<cfg, sideVars, made, batch_index, global_variant_index, k, raw, data, variants,
                   todo, ioVars, batchSizes, hostVars>>

\* Lines 417-418: data = robust_parse_json(raw); break -- inside the try.
ParseResponse ==
    /\ pc = "parsing"
    /\ IF robust_parse_json(raw).ok
       THEN /\ data' = robust_parse_json(raw).val
            /\ pc' = "validating"
            /\ UNCHANGED <<attempt, failReason>>
       ELSE HandleFailure /\ UNCHANGED data
    /\ UNCHANGED <<cfg, sideVars, made, batch_index, global_variant_index, k, raw, variants, todo,
                   ioVars, batchSizes, hostVars>>

\* Lines 424-446: shape validation, outside the try.
Validate ==
    /\ pc = "validating"
    /\ LET r == NormalizeVariants(data, k) IN
        IF r.ok
        THEN /\ variants' = r.variants
             /\ todo' = r.variants
             /\ pc' = "writing"
             /\ failReason' = failReason
        ELSE Raise(r.err) /\ UNCHANGED <<variants, todo>>
    /\ UNCHANGED <<cfg, sideVars, made, batch_index, global_variant_index, k, attempt, raw, data,
                   ioVars, batchSizes, hostVars>>

\* Lines 447-466: one iteration of the write loop.  w is what the file system
\* does: both writes succeed, or the TTS write or the caption write raises; a
\* write_text that raises has created the file or not (it opens the file
\* before it encodes and writes the text).  An item that is not an object
\* makes item.get raise before the first write of the iteration.
WriteVariant ==
    /\ pc = "writing"
    /\ todo # <<>>
    /\ \E w \in {"ok", "tts_error", "caption_error"}, created \in BOOLEAN :
        LET item == Head(todo)
            idx == NextIndex(global_variant_index)
            ttsFile == OutFile(idx, "tts")
            capFile == OutFile(idx, "caption")
            text == Content(batch_index, item)
            afterTts == IF TtsMode(cfg) THEN WriteText(files, idx, "tts", text) ELSE files
            logTts == IF TtsMode(cfg) THEN Append(writeLog, ttsFile) ELSE writeLog
        IN
        /\ global_variant_index' = idx
        /\ IF ~item.ok
           THEN Raise("item") /\ UNCHANGED <<files, writeLog, todo>>
           ELSE IF TtsMode(cfg) /\ w = "tts_error"
           THEN /\ Raise("write")
                /\ files' = IF created THEN WriteText(files, idx, "tts", Truncated) ELSE files
                /\ UNCHANGED <<writeLog, todo>>
           ELSE IF w = "caption_error"
           THEN /\ Raise("write")
                /\ files' = IF created THEN WriteText(afterTts, idx, "caption", Truncated)
                            ELSE afterTts
                /\ writeLog' = logTts
                /\ todo' = todo
           ELSE /\ w = "ok"
                /\ ~created
                /\ files' = WriteText(afterTts, idx, "caption", text)
                /\ writeLog' = Append(logTts, capFile)
                /\ todo' = Tail(todo)
                /\ UNCHANGED <<pc, failReason>>
    /\ UNCHANGED <<cfg, sideVars, made, batch_index, k, attempt, raw, data, variants, batchSizes,
                   requests, batchReqs, inFlight, hostVars>>

\* Lines 468-469: the end of the batch.
FinishBatch ==
    /\ pc = "writing"
    /\ todo = <<>>
    /\ made' = MadeAfter(made, variants)
    /\ pc' = "pending"
    /\ UNCHANGED <<cfg, sideVars, failReason, batch_index, global_variant_index, k, attempt, raw,
                   data, variants, todo, ioVars, batchSizes, hostVars>>

\* The CLI process ends.
ProcessExit ==
    /\ pc \in {"done", "failed"}
    /\ exitStatus = <<>>
    /\ exitStatus' = <<ExitStatus(pc)>>
    /\ UNCHANGED <<cfg, sideVars, pc, failReason, loopVars, ioVars, batchSizes, runResult, runRaised,
                   processResult>>

\* Rewriter.run, lines 160-165: code = self._proc.wait(); return code
RunReturns ==
    /\ exitStatus # <<>>
    /\ runResult = <<>>
    /\ runResult' = exitStatus
    /\ UNCHANGED <<cfg, sideVars, pc, failReason, loopVars, ioVars, batchSizes, exitStatus, runRaised,
                   processResult>>

\* AIGCService.process_files, lines 138-156.
ProcessFilesReturns ==
    /\ processResult = <<>>
    /\ \/ runResult # <<>> /\ processResult' = <<ProcessOk(runResult[1])>>
       \/ runRaised /\ processResult' = <<FALSE>>
    /\ UNCHANGED <<cfg, sideVars, pc, failReason, loopVars, ioVars, batchSizes, exitStatus, runResult,
                   runRaised>>

Next ==
    \/ LaunchFails
    \/ Setup
    \/ LoopHead
    \/ IssueRequest
    \/ ForExhausted
    \/ ReceiveException
    \/ ReceiveText
    \/ CheckEmpty
    \/ ParseResponse
    \/ Validate
    \/ WriteVariant
    \/ FinishBatch
    \/ ProcessExit
    \/ RunReturns
    \/ ProcessFilesReturns

Spec == Init /\ [][Next]_vars

\* ------------------------------------------------------------ the claims
InBatch == pc \in {"requesting", "awaiting", "received", "parsing", "validating", "writing"}

\* C1: when shape validation accepts the response of a batch of k, the list
\* has exactly k variants and is either the first k elements of the response's
\* `variants` array (which therefore had at least k) or, for k = 1, the
\* response object itself; nothing is padded, repeated or invented.
C1_ExactlyKOrRaise ==
    pc = "writing" =>
        /\ k >= 1
        /\ Len(variants) = k
        /\ \/ /\ data.kind = "dict" /\ data.vkind = "list" /\ data.vlen >= k
              /\ variants = SubSeq(VariantsOf(data), 1, k)
           \/ /\ k = 1 /\ data.kind = "dict" /\ data.keys # {}
              /\ variants = <<TopItem>>

\* C1 witness: an overlong array was cut to k > 1.
C1_Witness == pc = "writing" /\ k > 1 /\ data.vlen > k /\ Len(variants) = k

WritesOf(kind) == SelectSeq(writeLog, LAMBDA f : f.kind = kind)

\* C2: the indices of the files written are 1, 2, 3, ... in write order, for
\* the caption files and for the TTS files alike; during a batch the index is
\* `made` plus the variants of the batch visited so far, and at every batch
\* boundary it equals `made`.
C2_IndexSequence ==
    /\ \A kind \in {"caption", "tts"} :
         \A i \in 1..Len(WritesOf(kind)) : WritesOf(kind)[i].idx = i
    /\ pc \in {"pending", "done"} => global_variant_index = made
    /\ pc = "writing" => global_variant_index = made + Len(variants) - Len(todo)

\* C2 witness: a finished job of several batches, one of them retried.
C2_Witness ==
    /\ pc = "done"
    /\ Len(batchSizes) >= 2
    /\ requests > Len(batchSizes)
    /\ Len(WritesOf("caption")) >= 3

\* C3 (as claimed): a job that ends with success has made = total, and made
\* never exceeds total.
C3_MadeEqualsTotal ==
    /\ pc = "done" => made = cfg.num
    /\ pc \in {"pending", "done"} \/ InBatch => made <= cfg.num

\* C4 (as claimed): in every batch k = min(configured per-request size, total -
\* made) and 1 <= k <= configured per-request size.
C4_Original ==
    InBatch =>
        /\ k = Min(cfg.vpr, cfg.num - made)
        /\ 1 <= k
        /\ k <= cfg.vpr

\* C4: in every batch k = min(max(1, configured per-request size), total -
\* made) and 1 <= k <= max(1, configured per-request size); the job with total
\* 5 and per-request size 2 that finishes had batches of 2, 2 and 1 and made 5.
C4_BatchSize ==
    /\ InBatch =>
        /\ k = Min(Max(1, cfg.vpr), cfg.num - made)
        /\ 1 <= k
        /\ k <= Max(1, cfg.vpr)
    /\ (cfg.num = 5 /\ cfg.vpr = 2 /\ pc = "done") =>
        /\ batchSizes = <<2, 2, 1>>
        /\ made = 5

\* C4 witness: the example job finished.
C4_Witness == cfg.num = 5 /\ cfg.vpr = 2 /\ pc = "done" /\ batchSizes = <<2, 2, 1>>

\* C5 (as claimed): a parsed response of the wrong shape, with retry budget
\* left, leads to a new request for the same batch and writes nothing.
C5_ShapeErrorRetried ==
    [][(/\ pc = "validating"
        /\ data.kind # "unbound"
        /\ ~NormalizeVariants(data, k).ok
        /\ attempt < cfg.retries)
       => (pc' = "requesting" /\ batch_index' = batch_index /\ files' = files)]_vars

FailedAttempt ==
    \/ pc = "awaiting" /\ pc' # "received"
    \/ pc = "received" /\ pc' # "parsing"
    \/ pc = "parsing" /\ pc' # "validating"

\* C6: a batch issues at most retries+1 requests and the attempt counter runs
\* through the request, the empty check and the parse without a reset; a
\* failed attempt below the budget leads to the next request of the same
\* batch, the failure of the last attempt to FAILED; a new batch starts its
\* counter at zero.
C6_SharedRetryBudget ==
    /\ [](InBatch => batchReqs <= cfg.retries + 1)
    /\ [](pc \in {"awaiting", "received", "parsing"} => batchReqs = attempt + 1)
    /\ [][FailedAttempt =>
            IF attempt < cfg.retries
            THEN /\ pc' = "requesting"
                 /\ attempt' = attempt + 1
                 /\ batch_index' = batch_index
                 /\ batchReqs' = batchReqs
            ELSE pc' = "failed"]_vars
    /\ [][(pc = "pending" /\ pc' = "requesting") => (attempt' = 0 /\ batchReqs' = 0)]_vars

\* C6 witness: a second batch used its whole budget, the last failure being a
\* parse failure.
C6_Witness ==
    /\ pc = "failed" /\ failReason = "retries"
    /\ batch_index >= 2
    /\ cfg.retries >= 1
    /\ batchReqs = cfg.retries + 1
    /\ raw.kind = "garbage"

FileIdx == {f.idx : f \in files}
HasFile(i, kind) == \E f \in files : f.idx = i /\ f.kind = kind

\* C7 (as claimed): no file is written twice or removed, and after a failure
\* exactly the files with indices 1..made exist.
C7_Original ==
    /\ \A i, j \in 1..Len(writeLog) : i # j => writeLog[i] # writeLog[j]
    /\ \A i \in 1..Len(writeLog) : HasFile(writeLog[i].idx, writeLog[i].kind)
    /\ pc = "failed" => FileIdx = 1..made

\* C7: a file once written is never removed or changed; after a failure the
\* files of the completed batches, indices 1..made, all exist, and the only
\* other files are those the failing batch wrote before the failure, indices
\* made+1..global_variant_index, which exist only when the job failed while
\* writing.
C7_FilesRetained ==
    /\ [][\A f \in files : f \in files']_vars
    /\ [](pc = "failed" =>
            /\ \A i \in 1..made :
                 HasFile(i, "caption") /\ (TtsMode(cfg) => HasFile(i, "tts"))
            /\ FileIdx \subseteq 1..global_variant_index
            /\ failReason \notin {"item", "write"} => FileIdx = 1..made)

\* C7 witness: the job failed while writing a later batch, after a file of it.
C7_Witness ==
    /\ pc = "failed"
    /\ made >= 1
    /\ \E f \in files : f.idx > made

ConfigError ==
    \/ cfg.apiKey \in {"unset", "empty"}
    \/ ~cfg.capOk
    \/ cfg.tts = "unreadable"

\* C9: with the API key unset or empty, or the caption file or the requested
\* TTS file unreadable, the job never issues a request and never writes a
\* file, and it fails before the first batch.
C9_FailFast ==
    ConfigError =>
        /\ requests = 0
        /\ inFlight = 0
        /\ files = {}
        /\ writeLog = <<>>
        /\ pc \in {"start", "failed", "nolaunch"}
        /\ pc = "failed" => failReason \in {"nokey", "nocaption", "notts"}

\* C9 witness: the job failed on the TTS file, the last of the three checks.
C9_Witness == pc = "failed" /\ failReason = "notts" /\ requests = 0

AttemptFailed ==
    /\ files' = files
    /\ data' = data
    /\ made' = made
    /\ requests' = requests
    /\ IF attempt >= cfg.retries
       THEN pc' = "failed"
       ELSE pc' = "requesting" /\ attempt' = attempt + 1

\* C10: an empty or blank completion text never reaches the parser; the
\* driver hands it to the loop without a request of its own, and the loop
\* does with it what it does with a provider exception: the attempt failed.
C10_EmptyNotParsed ==
    /\ [](pc \in {"parsing", "writing"} => raw.kind \notin {"empty", "blank"})
    /\ [][(pc = "awaiting" /\ pc' = "received") => requests' = requests]_vars
    /\ [][(pc = "received" /\ raw.kind \in {"empty", "blank"}) => AttemptFailed]_vars
    /\ [][(pc = "awaiting" /\ pc' # "received") => AttemptFailed]_vars

\* C10 witness: a blank text failed an attempt and the batch is retried.
C10_Witness == pc = "requesting" /\ attempt >= 1 /\ raw.kind = "blank"

\* ====================================================================
\* The text functions of aigc/rewrite_tiktok_ds.py, studied on their own.
\* A text is the sequence of its characters; a character is written as a
\* one-character string, or by its code point ("U+4E2D") when it is not
\* an ASCII character or is the grave accent ("U+0060").
\* ====================================================================
MaxCaptionLen == 4
MaxBodyLen == 2
MaxTokens == 3
MaxStrPieces == 2
MaxParseParts == 2
MaxEscapeLen == 3
MaxQuoteLen == 2

Whitespace == {" ", "\t", "\n", "\r"}

Letters ==
    {"a", "b", "c", "d", "e", "f", "g", "h", "i", "j", "k", "l", "m", "n", "o", "p",
     "q", "r", "s", "t", "u", "v", "w", "x", "y", "z", "H"}

\* The character class of HASHTAG_PATTERN: \w, the hyphen and U+4E00..U+9FFF.
TagChars == Letters \cup {"0", "1", "_", "-", "U+4E2D"}

\* str.lstrip, str.rstrip, str.strip
RECURSIVE LStrip(_)
LStrip(s) == IF s # <<>> /\ Head(s) \in Whitespace THEN LStrip(Tail(s)) ELSE s

RECURSIVE RStrip(_)
RStrip(s) ==
    IF s # <<>> /\ s[Len(s)] \in Whitespace THEN RStrip(SubSeq(s, 1, Len(s) - 1)) ELSE s

Strip(s) == RStrip(LStrip(s))

\* The last position of the longest run of characters of cs that starts at
\* position i of s (i - 1 when s[i] is not in cs): a greedy `[cs]*`.
RECURSIVE RunEnd(_, _, _)
RunEnd(s, i, cs) == IF i <= Len(s) /\ s[i] \in cs THEN RunEnd(s, i + 1, cs) ELSE i - 1

\* HASHTAG_PATTERN matches at position i of s.
TagAt(s, i) == s[i] = "#" /\ i < Len(s) /\ s[i + 1] \in TagChars

\* [f"#{m.group(1)}" for m in HASHTAG_PATTERN.finditer(caption)], scanning from i
RECURSIVE FindTags(_, _)
FindTags(s, i) ==
    IF i > Len(s) THEN <<>>
    ELSE IF TagAt(s, i)
         THEN LET j == RunEnd(s, i + 2, TagChars)
              IN  <<SubSeq(s, i, j)>> \o FindTags(s, j + 1)
         ELSE FindTags(s, i + 1)

\* HASHTAG_PATTERN.sub("", caption), scanning from i
RECURSIVE RemoveTags(_, _)
RemoveTags(s, i) ==
    IF i > Len(s) THEN <<>>
    ELSE IF TagAt(s, i)
         THEN RemoveTags(s, RunEnd(s, i + 2, TagChars) + 1)
         ELSE <<s[i]>> \o RemoveTags(s, i + 1)

\* Faulty variant: whitespace runs are left as they are.
CollapseSpaces_Keep(s, i) == SubSeq(s, i, Len(s))

\* re.sub(r"\s{2,}", " ", body), scanning from i
RECURSIVE CollapseSpaces(_, _)
CollapseSpaces(s, i) ==
    IF i > Len(s) THEN <<>>
    ELSE IF s[i] \in Whitespace /\ i < Len(s) /\ s[i + 1] \in Whitespace
         THEN <<" ">> \o CollapseSpaces(s, RunEnd(s, i, Whitespace) + 1)
         ELSE <<s[i]>> \o CollapseSpaces(s, i + 1)

split_caption_and_tags(caption) ==
    [body |-> Strip(CollapseSpaces(RemoveTags(caption, 1), 1)),
     tags |-> FindTags(caption, 1)]

\* sep.join(parts)
RECURSIVE Join(_, _)
Join(parts, sep) ==
    IF parts = <<>> THEN <<>>
    ELSE IF Len(parts) = 1 THEN parts[1]
    ELSE parts[1] \o sep \o Join(Tail(parts), sep)

\* The content of a caption file: the caption of the item, stripped, then
\* the tags of the source caption on a line of their own.
CaptionOut(caption, tags) ==
    LET cap_out == Strip(caption)
    IN  IF tags # <<>> THEN Strip(cap_out \o <<"\n">> \o Join(tags, <<" ">>)) ELSE cap_out

\* ------------------------------------------------- JSON normalization
\* A code fence: three grave accents (U+0060).
Fence == <<"U+0060", "U+0060", "U+0060">>

\* Text p occurs in s at position i.
OccursAt(s, i, p) == i + Len(p) - 1 <= Len(s) /\ SubSeq(s, i, i + Len(p) - 1) = p

\* Faulty variant: the opening fence is removed without the whitespace after it.
FenceHeadEnd_NoSpace(t) == IF OccursAt(t, 4, <<"j", "s", "o", "n">>) THEN 7 ELSE 3

\* The last position of the match of ^```(?:json)?\s* in a text that starts
\* with a fence.
FenceHeadEnd(t) ==
    RunEnd(t, (IF OccursAt(t, 4, <<"j", "s", "o", "n">>) THEN 7 ELSE 3) + 1, Whitespace)

\* Faulty variant: the closing fence is never matched.
FenceTailStarts_None(t, h) == {}

\* The positions after h where \s*```$ matches.
FenceTailStarts(t, h) ==
    {q \in (h + 1)..(Len(t) - 2) :
        /\ OccursAt(t, Len(t) - 2, Fence)
        /\ \A j \in q..(Len(t) - 3) : t[j] \in Whitespace}

\* re.sub(r"^```(?:json)?\s*|\s*```$", "", t) for a text that starts with a
\* fence: the match at the start, then the leftmost match at the end.
RemoveFences(t) ==
    LET h == FenceHeadEnd(t)
        tails == FenceTailStarts(t, h)
    IN  IF tails = {} THEN SubSeq(t, h + 1, Len(t))
        ELSE SubSeq(t, h + 1, (CHOOSE q \in tails : \A r \in tails : q <= r) - 1)

\* s.split(c) for a one-character separator
RECURSIVE Split(_, _)
Split(s, c) ==
    IF \A i \in 1..Len(s) : s[i] # c THEN <<s>>
    ELSE LET i == CHOOSE n \in 1..Len(s) : s[n] = c /\ \A m \in 1..(n - 1) : s[m] # c
         IN  <<SubSeq(s, 1, i - 1)>> \o Split(SubSeq(s, i + 1, Len(s)), c)

strip_code_fences(s) ==
    LET t == Strip(s)
        u == IF OccursAt(t, 1, Fence) THEN RemoveFences(t) ELSE t
        lines == Split(u, "\n")
    IN  Join([i \in 1..Len(lines) |-> RStrip(lines[i])], <<"\n">>)

\* The value e, computed once v has been computed: the loops below carry
\* their state from one half of a range to the other, and the state of the
\* first half is settled before the second half is entered.
After(v, e) == IF v = v THEN e ELSE e

\* str.replace(old, new) as a scan from left to right.  Its state at
\* position i is `skip`, the first position after the last occurrence that
\* was replaced.  ReplaceOut: what position i adds to the result;
\* ReplaceStep: the state after position i.
ReplaceOut(s, i, old, new, skip) ==
    IF i < skip THEN <<>> ELSE IF OccursAt(s, i, old) THEN new ELSE <<s[i]>>

ReplaceStep(s, i, old, skip) ==
    IF i >= skip /\ OccursAt(s, i, old) THEN i + Len(old) ELSE skip

\* The scan over positions a..b from state skip: the state it ends in, and
\* the text it produces (the range is halved, which keeps evaluation shallow).
RECURSIVE ReplaceState(_, _, _, _, _)
ReplaceState(s, a, b, old, skip) ==
    IF a > b THEN skip
    ELSE IF a = b THEN ReplaceStep(s, a, old, skip)
    ELSE LET m == (a + b) \div 2
             mid == ReplaceState(s, a, m, old, skip)
         IN  After(mid, ReplaceState(s, m + 1, b, old, mid))

RECURSIVE ReplaceFrom(_, _, _, _, _, _)
ReplaceFrom(s, a, b, old, new, skip) ==
    IF a > b THEN <<>>
    ELSE IF a = b THEN ReplaceOut(s, a, old, new, skip)
    ELSE LET m == (a + b) \div 2
             mid == ReplaceState(s, a, m, old, skip)
         IN  After(mid, ReplaceFrom(s, a, m, old, new, skip)
                        \o ReplaceFrom(s, m + 1, b, old, new, mid))

Replace(s, old, new) == ReplaceFrom(s, 1, Len(s), old, new, 1)

\* The first argument of the first replace of line 108 as Python reads it:
\* a triple-quoted literal of fifteen characters.
ReplacedText ==
    <<",", " ", "'", "\"", "'", ")", ".", "r", "e", "p", "l", "a", "c", "e", "(">>

normalize_quotes(s) ==
    LET s1 == Replace(s, ReplacedText, <<"\"">>)
        s2 == Replace(s1, <<"'">>, <<"'">>)
    IN  Replace(s2, <<"'">>, <<"'">>)

\* The body of the loop of escape_newlines_in_strings for character ch in
\* state st = [in_str, esc]: what it appends to out, and the state it leaves.
EscapeOut(ch, st) ==
    IF st.in_str /\ ~st.esc /\ ch \in {"\n", "\r"} THEN <<"\\", "n">> ELSE <<ch>>

EscapeStep(ch, st) ==
    IF st.in_str
    THEN IF st.esc THEN [in_str |-> TRUE, esc |-> FALSE]
         ELSE IF ch = "\\" THEN [in_str |-> TRUE, esc |-> TRUE]
         ELSE IF ch = "\"" THEN [in_str |-> FALSE, esc |-> st.esc]
         ELSE st
    ELSE IF ch = "\"" THEN [in_str |-> TRUE, esc |-> FALSE]
         ELSE st

\* The loop over the characters a..b of s from state st: the state it ends
\* in, and what it appends to out.
RECURSIVE EscapeState(_, _, _, _)
EscapeState(s, a, b, st) ==
    IF a > b THEN st
    ELSE IF a = b THEN EscapeStep(s[a], st)
    ELSE LET m == (a + b) \div 2
             mid == EscapeState(s, a, m, st)
         IN  After(mid, EscapeState(s, m + 1, b, mid))

RECURSIVE EscapeFrom(_, _, _, _)
EscapeFrom(s, a, b, st) ==
    IF a > b THEN <<>>
    ELSE IF a = b THEN EscapeOut(s[a], st)
    ELSE LET m == (a + b) \div 2
             mid == EscapeState(s, a, m, st)
         IN  After(mid, EscapeFrom(s, a, m, st) \o EscapeFrom(s, m + 1, b, mid))

escape_newlines_in_strings(s) ==
    EscapeFrom(s, 1, Len(s), [in_str |-> FALSE, esc |-> FALSE])

\* The first three statements of robust_parse_json.
Normalize(s) == escape_newlines_in_strings(normalize_quotes(strip_code_fences(s)))

\* ------------------------------------------------------------ json.loads
\* json.loads on texts without digits, minus signs and the words NaN and
\* Infinity (no number can occur) and without \u escapes.  A parsed value
\* is a record: its type, the text of a string, the keys (in insertion
\* order) and the members of an object, the items of an array.
JVal(t, text, keys, items) == [t |-> t, text |-> text, keys |-> keys, items |-> items]
JStr(text) == JVal("str", text, <<>>, <<>>)
JObj(keys, vals) == JVal("obj", <<>>, keys, vals)
JArr(items) == JVal("arr", <<>>, <<>>, items)
JLit(name) == JVal(name, <<>>, <<>>, <<>>)

ScanFail == [ok |-> FALSE, val |-> JLit("null"), next |-> 0]
Scanned(v, n) == [ok |-> TRUE, val |-> v, next |-> n]

\* The whitespace the decoder skips, and the first position at or after i
\* that holds none.
JsonWs == {" ", "\t", "\n", "\r"}
SkipWs(s, i) == RunEnd(s, i, JsonWs) + 1

\* dict(pairs): a repeated key keeps its place and takes the later value.
PutKey(o, key, v) ==
    IF \E n \in 1..Len(o.keys) : o.keys[n] = key
    THEN LET n == CHOOSE m \in 1..Len(o.keys) : o.keys[m] = key
         IN  JObj(o.keys, [o.items EXCEPT ![n] = v])
    ELSE JObj(Append(o.keys, key), Append(o.items, v))

\* The escapes of a string literal (the backspace is written U+0008).
Escapes == {"\"", "\\", "/", "b", "f", "n", "r", "t"}
Unescape(c) ==
    CASE c = "b" -> "U+0008"
      [] c = "f" -> "\f"
      [] c = "n" -> "\n"
      [] c = "r" -> "\r"
      [] c = "t" -> "\t"
      [] OTHER -> c

\* Characters a strict decoder refuses inside a string literal.
ControlChars == {"\t", "\n", "\r", "\f", "U+0008"}

\* scanstring from position i, just after the opening quote or later.
RECURSIVE ScanString(_, _, _)
ScanString(s, i, acc) ==
    IF i > Len(s) THEN ScanFail
    ELSE IF s[i] = "\"" THEN Scanned(JStr(acc), i + 1)
    ELSE IF s[i] = "\\"
         THEN IF i < Len(s) /\ s[i + 1] \in Escapes
              THEN ScanString(s, i + 2, Append(acc, Unescape(s[i + 1])))
              ELSE ScanFail
    ELSE IF s[i] \in ControlChars THEN ScanFail
    ELSE ScanString(s, i + 1, Append(acc, s[i]))

\* scan_once at position i; JSONObject from the first key at j on;
\* JSONArray from the first item at j on.
RECURSIVE ScanValue(_, _)
RECURSIVE ScanMembers(_, _, _)
RECURSIVE ScanItems(_, _, _)
ScanValue(s, i) ==
    IF i > Len(s) THEN ScanFail
    ELSE IF s[i] = "\"" THEN ScanString(s, i + 1, <<>>)
    ELSE IF s[i] = "{"
         THEN LET j == SkipWs(s, i + 1)
              IN  IF j <= Len(s) /\ s[j] = "}" THEN Scanned(JObj(<<>>, <<>>), j + 1)
                  ELSE ScanMembers(s, j, JObj(<<>>, <<>>))
    ELSE IF s[i] = "["
         THEN LET j == SkipWs(s, i + 1)
              IN  IF j <= Len(s) /\ s[j] = "]" THEN Scanned(JArr(<<>>), j + 1)
                  ELSE ScanItems(s, j, <<>>)
    ELSE IF OccursAt(s, i, <<"n", "u", "l", "l">>) THEN Scanned(JLit("null"), i + 4)
    ELSE IF OccursAt(s, i, <<"t", "r", "u", "e">>) THEN Scanned(JLit("true"), i + 4)
    ELSE IF OccursAt(s, i, <<"f", "a", "l", "s", "e">>) THEN Scanned(JLit("false"), i + 5)
    ELSE ScanFail

ScanMembers(s, j, o) ==
    IF ~(j <= Len(s) /\ s[j] = "\"") THEN ScanFail
    ELSE LET key == ScanString(s, j + 1, <<>>) IN
         IF ~key.ok THEN ScanFail
         ELSE LET c == SkipWs(s, key.next) IN
              IF ~(c <= Len(s) /\ s[c] = ":") THEN ScanFail
              ELSE LET v == ScanValue(s, SkipWs(s, c + 1)) IN
                   IF ~v.ok THEN ScanFail
                   ELSE LET e == SkipWs(s, v.next)
                            o2 == PutKey(o, key.val.text, v.val)
                        IN  IF e > Len(s) THEN ScanFail
                            ELSE IF s[e] = "}" THEN Scanned(o2, e + 1)
                            ELSE IF s[e] = "," THEN ScanMembers(s, SkipWs(s, e + 1), o2)
                            ELSE ScanFail

ScanItems(s, j, items) ==
    LET v == ScanValue(s, j) IN
    IF ~v.ok THEN ScanFail
    ELSE LET e == SkipWs(s, v.next) IN
         IF e > Len(s) THEN ScanFail
         ELSE IF s[e] = "]" THEN Scanned(JArr(Append(items, v.val)), e + 1)
         ELSE IF s[e] = "," THEN ScanItems(s, SkipWs(s, e + 1), Append(items, v.val))
         ELSE ScanFail

\* json.loads(s): one value with nothing but whitespace around it.
json_loads(s) ==
    LET r == ScanValue(s, SkipWs(s, 1))
    IN  IF r.ok /\ SkipWs(s, r.next) = Len(s) + 1
        THEN [ok |-> TRUE, val |-> r.val]
        ELSE [ok |-> FALSE, val |-> JLit("null")]

\* Faulty variant: a backslash inside a string is an ordinary character.
TrimStep_NoEscape(ch, i, st) ==
    IF st.in_str
    THEN IF ch = "\"" THEN [st EXCEPT !.in_str = FALSE] ELSE st
    ELSE IF ch = "\"" THEN [st EXCEPT !.in_str = TRUE]
    ELSE IF ch = "{" THEN [st EXCEPT !.depth_obj = @ + 1]
    ELSE IF ch = "}"
         THEN [st EXCEPT !.depth_obj = @ - 1,
                         !.last_complete = IF st.depth_obj - 1 = 0 /\ st.depth_arr = 0
                                           THEN i ELSE @]
    ELSE IF ch = "[" THEN [st EXCEPT !.depth_arr = @ + 1]
    ELSE IF ch = "]"
         THEN [st EXCEPT !.depth_arr = @ - 1,
                         !.last_complete = IF st.depth_arr - 1 = 0 /\ st.depth_obj = 0
                                           THEN i ELSE @]
    ELSE st

\* The body of the loop of trim_to_complete_json for character ch at
\* position i in state st; last_complete is 0 while no top-level object or
\* array has been closed.
TrimStep(ch, i, st) ==
    IF st.in_str
    THEN IF st.esc THEN [st EXCEPT !.esc = FALSE]
         ELSE IF ch = "\\" THEN [st EXCEPT !.esc = TRUE]
         ELSE IF ch = "\"" THEN [st EXCEPT !.in_str = FALSE]
         ELSE st
    ELSE IF ch = "\"" THEN [st EXCEPT !.in_str = TRUE]
    ELSE IF ch = "{" THEN [st EXCEPT !.depth_obj = @ + 1]
    ELSE IF ch = "}"
         THEN [st EXCEPT !.depth_obj = @ - 1,
                         !.last_complete = IF st.depth_obj - 1 = 0 /\ st.depth_arr = 0
                                           THEN i ELSE @]
    ELSE IF ch = "[" THEN [st EXCEPT !.depth_arr = @ + 1]
    ELSE IF ch = "]"
         THEN [st EXCEPT !.depth_arr = @ - 1,
                         !.last_complete = IF st.depth_arr - 1 = 0 /\ st.depth_obj = 0
                                           THEN i ELSE @]
    ELSE st

\* The loop over the characters a..b of s from state st.
RECURSIVE TrimScan(_, _, _, _)
TrimScan(s, a, b, st) ==
    IF a > b THEN st
    ELSE IF a = b THEN TrimStep(s[a], a, st)
    ELSE LET m == (a + b) \div 2
             mid == TrimScan(s, a, m, st)
         IN  After(mid, TrimScan(s, m + 1, b, mid))

trim_to_complete_json(s) ==
    LET last_complete ==
            TrimScan(s, 1, Len(s), [in_str |-> FALSE, esc |-> FALSE, depth_obj |-> 0,
                                    depth_arr |-> 0, last_complete |-> 0]).last_complete
    IN  IF last_complete # 0 THEN SubSeq(s, 1, last_complete) ELSE s

\* s.rfind("}") as a position, 0 when there is none.
LastBrace(s) ==
    IF \A i \in 1..Len(s) : s[i] # "}" THEN 0
    ELSE CHOOSE i \in 1..Len(s) : s[i] = "}" /\ \A j \in (i + 1)..Len(s) : s[j] # "}"

\* robust_parse_json on the characters of a response: the value of the first
\* of the three attempts that parses, or a raise.
robust_parse_json_text(text) ==
    LET s == Normalize(text)
        first == json_loads(s)
        second == json_loads(trim_to_complete_json(s))
        third == json_loads(SubSeq(s, 1, LastBrace(s)))
    IN  IF first.ok THEN first
        ELSE IF second.ok THEN second
        ELSE IF LastBrace(s) # 0 /\ third.ok THEN third
        ELSE [ok |-> FALSE, val |-> JLit("null")]

\* ------------------------------------------ the shape of a parsed value
Chars(word) ==
    CASE word = "caption" -> <<"c", "a", "p", "t", "i", "o", "n">>
      [] word = "tts" -> <<"t", "t", "s">>
      [] word = "variants" -> <<"v", "a", "r", "i", "a", "n", "t", "s">>

\* `key in data`, data[key] and data.get(key) of a parsed object
HasKey(v, word) == \E n \in 1..Len(v.keys) : v.keys[n] = Chars(word)
Member(v, word) == v.items[CHOOSE n \in 1..Len(v.keys) : v.keys[n] = Chars(word)]

\* What the validation of lines 424-443 reads of a parsed value.
ShapeOf(v) ==
    IF v.t # "obj" THEN NonDict
    ELSE LET ks == {w \in Keys : HasKey(v, w)} IN
         IF ~HasKey(v, "variants") THEN Dict(ks, "absent", 0, 0)
         ELSE LET vs == Member(v, "variants") IN
              IF vs.t # "arr" THEN Dict(ks, "notlist", 0, 0)
              ELSE LET bad == {n \in 1..Len(vs.items) : vs.items[n].t # "obj"}
                   IN  Dict(ks, "list", Len(vs.items),
                            IF bad = {} THEN 0 ELSE CHOOSE n \in bad : \A m \in bad : n <= m)

\* The parsed object behind an item of the accepted list.
ItemValue(v, item) == IF item = TopItem THEN v ELSE Member(v, "variants").items[item.id]

\* (item.get("caption") or "").strip() for a caption that is a string
CaptionText(v) == IF HasKey(v, "caption") THEN Strip(Member(v, "caption").text) ELSE <<>>

\* ------------------------------------------------------------ the inputs
SeqsUpTo(cs, n) == UNION {[1..m -> cs] : m \in 0..n}

ExampleCaption ==
    <<"H", "e", "l", "l", "o", " ", "#", "f", "u", "n", " ", "#", "t", "e", "s", "t">>

\* Caption sources: every text of at most MaxCaptionLen characters over a
\* tag mark, two tag characters, two whitespace characters and a
\* punctuation mark, and the caption of the specification's example.
CaptionChars == {"#", "a", "-", " ", "\n", "!"}
Captions == SeqsUpTo(CaptionChars, MaxCaptionLen) \cup {ExampleCaption}

\* What the model may return as the caption of an item.
ModelCaptionChars == {"a", "#", " "}
ModelCaptions == SeqsUpTo(ModelCaptionChars, MaxBodyLen)

\* Response texts: at most MaxTokens pieces, each a fence, the word json, a
\* whitespace character, a quote, a typographic quote, a backslash, a
\* letter, or a part or the whole of the text line 108 replaces.
Tokens ==
    {Fence, <<"j", "s", "o", "n">>, <<" ">>, <<"\n">>, <<"\"">>, <<"U+201C">>, <<"\\">>,
     <<"x">>, ReplacedText, SubSeq(ReplacedText, 1, 3), SubSeq(ReplacedText, 5, 15)}

ResponseTexts == {Join(ts, <<>>) : ts \in SeqsUpTo(Tokens, MaxTokens)}

\* JSON documents, each with the value it denotes.  The pieces of a string
\* literal: a letter, a fence, an escaped line break, an escaped quote.
StrPieces ==
    {[text |-> <<"x">>, val |-> <<"x">>],
     [text |-> Fence, val |-> Fence],
     [text |-> <<"\\", "n">>, val |-> <<"\n">>],
     [text |-> <<"\\", "\"">>, val |-> <<"\"">>]}

StringOf(ps) ==
    [text |-> <<"\"">> \o Join([i \in 1..Len(ps) |-> ps[i].text], <<>>) \o <<"\"">>,
     val |-> JStr(Join([i \in 1..Len(ps) |-> ps[i].val], <<>>))]

JsonStrings == {StringOf(ps) : ps \in SeqsUpTo(StrPieces, MaxStrPieces)}
ShortStrings == {StringOf(<<p>>) : p \in StrPieces}

\* The whitespace a document may have between its tokens.
Gaps == {<<>>, <<" ">>, <<" ", "\n", " ">>}

KeyText(word) == <<"\"">> \o Chars(word) \o <<"\"">>

\* {"caption": c}, {"caption": c, "tts": t}, [items...] and
\* {"variants": [items...]}, written with gap g.
ObjCaption(c, g) ==
    [text |-> <<"{">> \o g \o KeyText("caption") \o <<":">> \o g \o c.text \o g \o <<"}">>,
     val |-> JObj(<<Chars("caption")>>, <<c.val>>)]

ObjBoth(c, t, g) ==
    [text |-> <<"{">> \o g \o KeyText("caption") \o <<":">> \o g \o c.text \o <<",">> \o g
              \o KeyText("tts") \o <<":">> \o g \o t.text \o g \o <<"}">>,
     val |-> JObj(<<Chars("caption"), Chars("tts")>>, <<c.val, t.val>>)]

ArrayOf(items, g) ==
    [text |-> <<"[">> \o g \o Join([i \in 1..Len(items) |-> items[i].text], <<",">> \o g)
              \o g \o <<"]">>,
     val |-> JArr([i \in 1..Len(items) |-> items[i].val])]

ObjVariants(items, g) ==
    [text |-> <<"{">> \o g \o KeyText("variants") \o <<":">> \o g \o ArrayOf(items, g).text
              \o g \o <<"}">>,
     val |-> JObj(<<Chars("variants")>>, <<ArrayOf(items, g).val>>)]

\* The document of the specification's example: {"caption": "x"}
ExampleDoc == ObjCaption(StringOf(<<[text |-> <<"x">>, val |-> <<"x">>]>>), <<" ">>)

JsonDocs ==
    JsonStrings
    \cup {ObjCaption(c, g) : c \in JsonStrings, g \in Gaps}
    \cup {ObjBoth(c, t, g) : c \in JsonStrings, t \in ShortStrings, g \in Gaps}
    \cup {ArrayOf(items, g) : items \in SeqsUpTo(ShortStrings, MaxPerReq), g \in Gaps}
    \cup {ObjVariants([i \in 1..Len(cs) |-> ObjCaption(cs[i], <<>>)], g) :
            cs \in SeqsUpTo(ShortStrings, MaxPerReq + 1), g \in Gaps}

\* A fenced response: the fence with or without the word json on the first
\* line, the document, the fence on the last line.
FenceLines == {Fence, Fence \o <<"j", "s", "o", "n">>}
LineEnds == {<<"\n">>, <<"\r", "\n">>}
Fenced(first, eol, doc) == first \o eol \o doc \o eol \o Fence

\* Texts for the three attempts of robust_parse_json: at most MaxParseParts
\* pieces, each a bracket, an empty array, a quote, a backslash, a letter, a
\* space, a line break, or a whole object (DocPlain; DocEscaped has an
\* escaped quote and a closing brace inside a string).
DocPlain == <<"{", "\"", "k", "\"", ":", "\"", "v", "\"", "}">>
DocEscaped == <<"{", "\"", "k", "\"", ":", "\"", "\\", "\"", "}", "\"", "}">>
ParseParts ==
    {<<"{">>, <<"}">>, <<"[">>, <<"]">>, <<"[", "]">>, <<"\"">>, <<"\\">>, <<"x">>, <<" ">>, <<"\n">>,
     DocPlain, DocEscaped}
ParseTexts == {Join(ts, <<>>) : ts \in SeqsUpTo(ParseParts, MaxParseParts)}

\* Texts for escape_newlines_in_strings: quotes, backslashes, line feeds,
\* carriage returns and a letter.
EscapeChars == {"\"", "\\", "\n", "\r", "x"}
EscapeTexts == SeqsUpTo(EscapeChars, MaxEscapeLen)

\* Texts for normalize_quotes: the four typographic quotes, the two ASCII
\* quotes, a CJK corner bracket ("U+300C"), a letter, and the text line 108
\* replaces.
QuoteParts ==
    {<<"U+201C">>, <<"U+201D">>, <<"U+2018">>, <<"U+2019">>, <<"\"">>, <<"'">>, <<"U+300C">>,
     <<"x">>, ReplacedText}
QuoteTexts == {Join(ts, <<>>) : ts \in SeqsUpTo(QuoteParts, MaxQuoteLen)}

TextInputs ==
    [kind : {"escape"}, text : EscapeTexts]
    \cup [kind : {"quotes"}, text : QuoteTexts]
    \cup [kind : {"caption"}, caption : Captions]
    \cup [kind : {"response"}, text : ResponseTexts]
    \cup [kind : {"fenced"}, doc : JsonDocs, first : FenceLines, eol : LineEnds]
    \cup [kind : {"parse"}, text : ParseTexts]

\* No job runs while the text functions are studied.
NoJob ==
    /\ cfg = [num |-> 0, vpr |-> 1, retries |-> 0, apiKey |-> "unset", capOk |-> FALSE,
              tts |-> "none"]
    /\ pc = "off"
    /\ failReason = "none"
    /\ made = 0
    /\ batch_index = 0
    /\ global_variant_index = 0
    /\ k = 0
    /\ attempt = 0
    /\ raw = EmptyText
    /\ data = NoData
    /\ variants = <<>>
    /\ todo = <<>>
    /\ files = {}
    /\ writeLog = <<>>
    /\ batchSizes = <<>>
    /\ requests = 0
    /\ batchReqs = 0
    /\ inFlight = 0
    /\ exitStatus = <<>>
    /\ runResult = <<>>
    /\ runRaised = FALSE
    /\ processResult = <<>>

pipelineVars == <<cfg, pc, failReason, loopVars, ioVars, batchSizes, hostVars>>
jobVars == <<pipelineVars, embedVars>>

InitText ==
    /\ NoJob
    /\ NoStream
    /\ NoEmbed
    /\ step = "input"
    /\ input \in TextInputs
    /\ output = <<>>

\* cap_body, tags = split_caption_and_tags(cap_src)
SplitCaption ==
    /\ step = "input"
    /\ input.kind = "caption"
    /\ output' = split_caption_and_tags(input.caption)
    /\ step' = "split"
    /\ UNCHANGED <<input, jobVars, streamVars>>

\* The write loop composes the caption file of an item whose caption the
\* model chose.
ComposeCaption ==
    /\ step = "split"
    /\ \E c \in ModelCaptions :
          output' = [body |-> output.body, tags |-> output.tags, caption |-> c,
                     cap_out |-> CaptionOut(c, output.tags)]
    /\ step' = "composed"
    /\ UNCHANGED <<input, jobVars, streamVars>>

\* robust_parse_json normalizes the response text.
NormalizeResponse ==
    /\ step = "input"
    /\ input.kind = "response"
    /\ output' = [once |-> Normalize(input.text)]
    /\ step' = "normalized"
    /\ UNCHANGED <<input, jobVars, streamVars>>

\* The normalized text is normalized a second time.
NormalizeAgain ==
    /\ step = "normalized"
    /\ output' = [once |-> output.once, again |-> Normalize(output.once)]
    /\ step' = "renormalized"
    /\ UNCHANGED <<input, jobVars, streamVars>>

\* robust_parse_json on a fenced response and on the document alone.
ParseFenced ==
    /\ step = "input"
    /\ input.kind = "fenced"
    /\ output' = [wrapped |-> robust_parse_json_text(Fenced(input.first, input.eol, input.doc.text)),
                  plain |-> robust_parse_json_text(input.doc.text)]
    /\ step' = "parsed"
    /\ UNCHANGED <<input, jobVars, streamVars>>

\* The shape validation of a batch of one, and the caption of each item it
\* accepts.
AcceptOne ==
    /\ step = "parsed"
    /\ output.wrapped.ok
    /\ LET r == NormalizeVariants(ShapeOf(output.wrapped.val), 1)
       IN  output' = [wrapped |-> output.wrapped, plain |-> output.plain, accepted |-> r.ok,
                      variants |-> r.variants,
                      captions |-> [i \in 1..Len(r.variants) |->
                                       IF r.variants[i].ok
                                       THEN CaptionText(ItemValue(output.wrapped.val, r.variants[i]))
                                       ELSE <<>>]]
    /\ step' = "validated"
    /\ UNCHANGED <<input, jobVars, streamVars>>

\* data = robust_parse_json(raw)
RobustParse ==
    /\ step = "input"
    /\ input.kind = "parse"
    /\ output' = [result |-> robust_parse_json_text(input.text)]
    /\ step' = "robust"
    /\ UNCHANGED <<input, jobVars, streamVars>>

\* s = normalize_quotes(s), on its own
NormalizeQuotes ==
    /\ step = "input"
    /\ input.kind = "quotes"
    /\ output' = [quoted |-> normalize_quotes(input.text)]
    /\ step' = "quoted"
    /\ UNCHANGED <<input, jobVars, streamVars>>

\* s = escape_newlines_in_strings(s), on its own
EscapeNewlines ==
    /\ step = "input"
    /\ input.kind = "escape"
    /\ output' = [escaped |-> escape_newlines_in_strings(input.text)]
    /\ step' = "escaped"
    /\ UNCHANGED <<input, jobVars, streamVars>>

NextText ==
    \/ NormalizeQuotes
    \/ EscapeNewlines
    \/ RobustParse
    \/ ParseFenced
    \/ AcceptOne
    \/ SplitCaption
    \/ ComposeCaption
    \/ NormalizeResponse
    \/ NormalizeAgain

SpecText == InitText /\ [][NextText]_vars

\* ------------------------------------------------------------------ C12
\* The positions of s where a hashtag starts: a tag mark followed by a tag
\* character (a match never swallows a tag mark, so none is skipped).
HashtagStarts(s) == {i \in 1..Len(s) : s[i] = "#" /\ i < Len(s) /\ s[i + 1] \in TagChars}

\* The last character of the hashtag that starts at p.
HashtagEnd(s, p) ==
    CHOOSE e \in (p + 1)..Len(s) :
        /\ \A j \in (p + 1)..e : s[j] \in TagChars
        /\ e = Len(s) \/ s[e + 1] \notin TagChars

\* C12: split_caption_and_tags returns, as tags, exactly the hashtags of the
\* caption in order of occurrence, and a body that contains no hashtag, no
\* run of two or more whitespace characters and no leading or trailing
\* whitespace; for "Hello #fun #test" the tags are #fun, #test and the body
\* is "Hello".
C12_SplitCaption ==
    step = "split" =>
        LET s == input.caption
            body == output.body
            tags == output.tags
            starts == HashtagStarts(s)
        IN  /\ Len(tags) = Cardinality(starts)
            /\ \A p \in starts :
                  tags[Cardinality({q \in starts : q <= p})] = SubSeq(s, p, HashtagEnd(s, p))
            /\ HashtagStarts(body) = {}
            /\ \A i \in 1..(Len(body) - 1) :
                  ~(body[i] \in Whitespace /\ body[i + 1] \in Whitespace)
            /\ body # <<>> => body[1] \notin Whitespace /\ body[Len(body)] \notin Whitespace
            /\ s = ExampleCaption =>
                  /\ tags = << <<"#", "f", "u", "n">>, <<"#", "t", "e", "s", "t">> >>
                  /\ body = <<"H", "e", "l", "l", "o">>

\* The example's caption has been split: two tags taken out, the whitespace
\* they leave behind collapsed and stripped.
C12_Witness ==
    /\ step = "split"
    /\ input.caption = ExampleCaption
    /\ Len(output.tags) = 2
    /\ Len(output.body) = 5

\* ------------------------------------------------------------------ C11
\* The hashtags of s, in order of occurrence.
HashtagsOf(s) ==
    LET starts == HashtagStarts(s)
        nth(n) == CHOOSE p \in starts : Cardinality({q \in starts : q <= p}) = n
    IN  [n \in 1..Cardinality(starts) |-> SubSeq(s, nth(n), HashtagEnd(s, nth(n)))]

\* The tags as they are appended: separated by single spaces.
TagSuffix(s) == Join(HashtagsOf(s), <<" ">>)

\* C11: every written caption file ends with the hashtags of the original
\* caption, unchanged in spelling, order and multiplicity, appended after the
\* rewritten body; hashtags occur only in that suffix, never in the part
\* that came from the model's response.
C11_HashtagsOnlyAppended ==
    step = "composed" =>
        LET content == output.cap_out
            suffix == TagSuffix(input.caption)
            n == Len(content) - Len(suffix)
        IN  /\ n >= 0
            /\ SubSeq(content, n + 1, Len(content)) = suffix
            /\ HashtagStarts(SubSeq(content, 1, n)) = {}

\* ------------------------------------------------------------------ C13
\* C13 as claimed: for every input text, normalizing the normalized text
\* gives the normalized text again.
C13_Original == step = "renormalized" => output.again = output.once

\* Text p occurs somewhere in s.
Contains(s, p) == \E i \in 1..Len(s) : i + Len(p) - 1 <= Len(s) /\ SubSeq(s, i, i + Len(p) - 1) = p

\* C13: for every input text whose normalized form neither starts with a
\* code fence nor contains the text that normalize_quotes replaces,
\* normalizing the normalized form returns it unchanged.
C13_Idempotent ==
    step = "renormalized"
        /\ ~OccursAt(output.once, 1, Fence)
        /\ ~Contains(output.once, ReplacedText)
    => output.again = output.once

\* A response whose open string holds a raw line break and then a fence went
\* through the steps: the line break is written as an escape, the fence is
\* not at the start and stays, and the second pass changed nothing.
C13_Witness ==
    /\ step = "renormalized"
    /\ input.text = <<"\"", "\n">> \o Fence
    /\ output.once = <<"\"", "\\", "n">> \o Fence
    /\ ~Contains(output.once, ReplacedText)
    /\ output.again = output.once

\* ------------------------------------------------------------------ C14
\* C14: a response that is a valid JSON document wrapped in a code fence
\* (the fence, alone or followed by the word json, on the first line and the
\* fence on the last line) parses to the value of the document, as the
\* document alone does; with k = 1 the fenced {"caption": "x"} yields
\* exactly one variant, whose caption is x.
C14_FencedParsesAlike ==
    /\ step = "parsed" =>
          /\ output.plain = [ok |-> TRUE, val |-> input.doc.val]
          /\ output.wrapped = [ok |-> TRUE, val |-> input.doc.val]
    /\ step = "validated" /\ input.doc = ExampleDoc =>
          /\ output.accepted
          /\ Len(output.variants) = 1
          /\ output.captions = << <<"x">> >>

\* The fenced example has been parsed and validated for a batch of one.
C14_Witness ==
    /\ step = "validated"
    /\ input.doc = ExampleDoc
    /\ input.first = Fence \o <<"j", "s", "o", "n">>
    /\ Len(output.variants) = 1

\* ------------------------------------------------------------------ C15
\* The largest index whose file name is examined.
MaxIndex == 120

\* The number a text of decimal digits denotes.
RECURSIVE DigitsValue(_)
DigitsValue(ds) ==
    IF ds = <<>> THEN 0
    ELSE 10 * DigitsValue(SubSeq(ds, 1, Len(ds) - 1))
         + (CHOOSE d \in 0..9 : DigitChars[d + 1] = ds[Len(ds)])

IsDigits(ds) == \A n \in 1..Len(ds) : \E d \in 1..10 : DigitChars[d] = ds[n]

\* The name of f is variant_<digits>_<kind>.txt, where the digits are the
\* index of f in decimal, zero-padded to two digits and not further.
WellNamed(f) ==
    LET n == Len(f.name)
        digits == SubSeq(f.name, 2, n - 3)
    IN  /\ n >= 6
        /\ f.name[1] = "variant_"
        /\ f.name[n - 2] = "_"
        /\ f.name[n - 1] = f.kind
        /\ f.name[n] = ".txt"
        /\ IsDigits(digits)
        /\ Len(digits) >= 2
        /\ Len(digits) > 2 => digits[1] # "0"
        /\ DigitsValue(digits) = f.idx

\* The successful writes of the file of that index and kind, by position in
\* the log.
WritesNamed(i, kind) ==
    {n \in 1..Len(writeLog) : writeLog[n].idx = i /\ writeLog[n].kind = kind}

\* The variants whose iteration of the write loop has completed.
VariantsWritten ==
    IF pc = "writing" THEN made + Len(variants) - Len(todo)
    ELSE IF pc \in {"pending", "done"} THEN made
    ELSE Len(WritesOf("caption"))

NamesOfIndices == \A i \in 0..MaxIndex : \A kind \in {"caption", "tts"} : WellNamed(OutFile(i, kind))

MaxChunks == 2
MaxStreamReqs == 2

\* (now - self.last_flush) > 0.05, in milliseconds
FlushAfterMs == 50
\* len("".join(self.buf)) > 400
FlushOverChars == 400

ClockSteps == {0, 60}

\* `if text`, `if rc`, `if part`: None and the empty text are false
Truthy(v) == ~v.none /\ v.text # <<>>

\* The deltas the provider may send: each field is absent, empty or a text.
ReasoningTexts == {<<"r">>}
\* A chunk half as long as the size limit of the compact display: two of them
\* fill the buffer to the limit exactly, a third character goes over it.
LongChunk == [i \in 1..(FlushOverChars \div 2) |-> "c"]
ContentTexts == {LongChunk, <<" ", "\n">>}
Deltas ==
    [reasoning_content : {None, Str(<<>>)} \cup {Str(t) : t \in ReasoningTexts},
     content : {None, Str(<<>>)} \cup {Str(t) : t \in ContentTexts}]

StreamConfigs ==
    [stream_style : {"raw", "compact"}, show_reasoning : BOOLEAN, stream_log : BOOLEAN]

\* "".join(parts)
RECURSIVE JoinRange(_, _, _)
JoinRange(parts, a, b) ==
    IF a > b THEN <<>>
    ELSE IF a = b THEN parts[a]
    ELSE LET m == (a + b) \div 2 IN JoinRange(parts, a, m) \o JoinRange(parts, m + 1, b)

JoinAll(parts) == JoinRange(parts, 1, Len(parts))

\* re.sub(r"[ \t\r\n]+", " ", chunk) on the characters a..b of the chunk:
\* the first character of a run becomes a space, the others go.
DisplayWs == {" ", "\t", "\r", "\n"}

RECURSIVE CollapseRange(_, _, _)
CollapseRange(s, a, b) ==
    IF a > b THEN <<>>
    ELSE IF a = b
         THEN IF s[a] \notin DisplayWs THEN <<s[a]>>
              ELSE IF a > 1 /\ s[a - 1] \in DisplayWs THEN <<>> ELSE <<" ">>
    ELSE LET m == (a + b) \div 2 IN CollapseRange(s, a, m) \o CollapseRange(s, m + 1, b)

Collapse(chunk) == CollapseRange(chunk, 1, Len(chunk))

\* StreamPrinter._write_log: append to the file when there is one
WriteLog(file, text, configured) == IF configured THEN file \o text ELSE file

\* Faulty variant: the buffer is flushed on the clock only.
ShouldFlush_NoSize(t, last_flush, buf) == (t - last_flush) > FlushAfterMs

\* Line 200: (now - self.last_flush) > 0.05 or len("".join(self.buf)) > 400
ShouldFlush(t, last_flush, buf) ==
    (t - last_flush) > FlushAfterMs \/ Len(JoinAll(buf)) > FlushOverChars

\* StreamPrinter.add(text), the clock reading t at line 199.
Add(text, t) ==
    IF text = <<>> THEN UNCHANGED <<sp, logfile, stdout, now>>
    ELSE /\ logfile' = WriteLog(logfile, text, scfg.stream_log)
         /\ IF sp.mode = "raw"
            THEN /\ stdout' = Append(stdout, text)
                 /\ UNCHANGED <<sp, now>>
            ELSE LET buf == Append(sp.buf, text) IN
                 /\ now' = t
                 /\ IF ShouldFlush(t, sp.last_flush, buf)
                    THEN /\ stdout' = Append(stdout, Collapse(JoinAll(buf)))
                         /\ sp' = [sp EXCEPT !.buf = <<>>, !.last_flush = t]
                    ELSE /\ sp' = [sp EXCEPT !.buf = buf]
                         /\ stdout' = stdout

\* Faulty variant: reasoning is collected where a chunk has no content.
ContentPart_OrReasoning(d) == IF Truthy(d.content) THEN d.content ELSE d.reasoning_content

\* part = getattr(delta, "content", None)
ContentPart(d) == d.content

\* "".join(x for x in content_buf if x)
JoinContent(parts) == JoinAll(SelectSeq(parts, LAMBDA x : x # <<>>))

InitStream ==
    /\ NoJob
    /\ NoEmbed
    /\ step = "off"
    /\ input = <<>>
    /\ output = <<>>
    /\ scfg \in StreamConfigs
    /\ spc = "idle"
    /\ delta = [reasoning_content |-> None, content |-> None]
    /\ received = <<>>
    /\ nchunks = 0
    /\ streamReqs = 0
    /\ sp = [mode |-> "compact", buf |-> <<>>, last_flush |-> 0]
    /\ logfile = <<>>
    /\ stdout = <<>>
    /\ now = 0
    /\ content_buf = <<>>
    /\ returned = <<>>

\* Lines 217-236: a request starts.  The printer is created (it reads the
\* clock and empties the transcript file) and the stream is opened.  The
\* printer only ever uses the time passed since last_flush, so the clock is
\* read where it stands: time passes between the reading of line 180 and the
\* readings of line 199.
CallStream ==
    /\ spc \in {"idle", "returned", "raised"}
    /\ streamReqs < MaxStreamReqs
    /\ streamReqs' = streamReqs + 1
    /\ now' = now
    /\ sp' = [mode |-> scfg.stream_style, buf |-> <<>>, last_flush |-> now]
    /\ logfile' = IF scfg.stream_log THEN <<>> ELSE logfile
    /\ content_buf' = <<>>
    /\ received' = <<>>
    /\ returned' = <<>>
    /\ spc' = "iter"
    /\ UNCHANGED <<jobVars, textVars, scfg, delta, nchunks, stdout>>

\* Lines 237-238: the next chunk of the stream arrives.
NextChunk ==
    /\ spc = "iter"
    /\ nchunks < MaxChunks
    /\ \E d \in Deltas :
        /\ delta' = d
        /\ received' = Append(received, d)
    /\ nchunks' = nchunks + 1
    /\ spc' = "rc"
    /\ UNCHANGED <<jobVars, textVars, scfg, streamReqs, sp, logfile, stdout, now, content_buf,
                   returned>>

\* Lines 239-241: rc = ...; if rc and show_reasoning: sp.add(rc)
AddReasoning ==
    /\ spc = "rc"
    /\ LET rc == delta.reasoning_content IN
        IF Truthy(rc) /\ scfg.show_reasoning
        THEN \E t \in {now + d : d \in ClockSteps} : Add(rc.text, t)
        ELSE UNCHANGED <<sp, logfile, stdout, now>>
    /\ spc' = "content"
    /\ UNCHANGED <<jobVars, textVars, scfg, delta, received, nchunks, streamReqs, content_buf,
                   returned>>

\* Lines 242-245: part = ...; if part: sp.add(part); content_buf.append(part)
AddContent ==
    /\ spc = "content"
    /\ LET part == ContentPart(delta) IN
        IF Truthy(part)
        THEN /\ \E t \in {now + d : d \in ClockSteps} : Add(part.text, t)
             /\ content_buf' = Append(content_buf, part.text)
        ELSE UNCHANGED <<sp, logfile, stdout, now, content_buf>>
    /\ spc' = "iter"
    /\ UNCHANGED <<jobVars, textVars, scfg, delta, received, nchunks, streamReqs, returned>>

\* Lines 247-249: the stream ends; sp.close() displays what is buffered and
\* the collected content is returned.
EndOfStream ==
    /\ spc = "iter"
    /\ IF sp.buf # <<>>
       THEN /\ stdout' = Append(stdout, Collapse(JoinAll(sp.buf)))
            /\ sp' = [sp EXCEPT !.buf = <<>>]
       ELSE UNCHANGED <<sp, stdout>>
    /\ returned' = <<JoinContent(content_buf)>>
    /\ spc' = "returned"
    /\ UNCHANGED <<jobVars, textVars, scfg, delta, received, nchunks, streamReqs, logfile, now,
                   content_buf>>

\* The request or the iteration of the stream raises: call_stream is left
\* by the exception, the printer is not closed and nothing is returned.
StreamRaises ==
    /\ spc = "iter"
    /\ spc' = "raised"
    /\ UNCHANGED <<jobVars, textVars, scfg, delta, received, nchunks, streamReqs, sp, logfile,
                   stdout, now, content_buf, returned>>

NextStream ==
    \/ CallStream
    \/ NextChunk
    \/ AddReasoning
    \/ AddContent
    \/ EndOfStream
    \/ StreamRaises

SpecStream == InitStream /\ [][NextStream]_vars

\* ------------------------------------------------------------------ C16
\* The text of a field of a delta as the provider sent it.
TextOf(v) == IF v.none THEN <<>> ELSE v.text

\* What each chunk of a request carried: its reasoning, then its content.
ChunkTexts(ds) ==
    [i \in 1..Len(ds) |-> TextOf(ds[i].reasoning_content) \o TextOf(ds[i].content)]

\* Every chunk received so far has been handled.
ChunksHandled == spc \in {"iter", "returned", "raised"}

\* C16 (as claimed): with a transcript file configured, the file holds the
\* text of every chunk received in this request, unmodified and in arrival
\* order, in both display modes and whatever the printer has flushed.
C16_SinkReceivesAll ==
    scfg.stream_log /\ ChunksHandled => logfile = JoinAll(ChunkTexts(received))

\* ------------------------------------------------------------------ C17
\* C17: the text call_stream returns is the concatenation, in arrival order,
\* of the content of the deltas received in the request (an absent or empty
\* content adds nothing), whatever the reasoning fields, the display mode, the
\* reasoning flag and the transcript setting are.
C17_ReturnedText ==
    spc = "returned" =>
        returned = <<JoinAll([i \in 1..Len(received) |-> TextOf(received[i].content)])>>

\* C17 witness: a request whose two chunks both carried reasoning, shown on
\* a compact display and logged, returned the two contents in order.
C17_Witness ==
    /\ spc = "returned"
    /\ scfg = [stream_style |-> "compact", show_reasoning |-> TRUE, stream_log |-> TRUE]
    /\ Len(received) = 2
    /\ \A i \in 1..2 : received[i].reasoning_content = Str(<<"r">>)
    /\ received[1].content = Str(LongChunk)
    /\ received[2].content = Str(<<" ", "\n">>)
    /\ returned = << LongChunk \o <<" ", "\n">> >>

\* ------------------------------------------------------------------ C18
\* C18 (as claimed): when a batch of one is accepted, the parsed value is an
\* object with a `caption` key (and, when a TTS text was read, a `tts` key as
\* well) and is used as the only variant, or it is an object whose `variants`
\* is a list of at least one element, of which the first is the only variant.
C18_SingleObjectShape ==
    pc = "writing" /\ k = 1 =>
        \/ /\ data.kind = "dict"
           /\ "caption" \in data.keys
           /\ cfg.tts = "text" => "tts" \in data.keys
           /\ variants = <<TopItem>>
        \/ /\ data.kind = "dict"
           /\ data.vkind = "list"
           /\ data.vlen >= 1
           /\ variants = <<[id |-> 1, ok |-> (data.badAt # 1)]>>

\* ------------------------------------------------------------------ C19
\* What lines 424-443 accept for a batch of n.
ShapeAccepted(d, n) ==
    /\ d.kind = "dict"
    /\ IF n = 1 THEN d.keys # {} \/ (d.vkind = "list" /\ d.vlen >= 1)
       ELSE d.vkind = "list" /\ d.vlen >= n

\* The files of the batch in progress are those numbered above `made`.
BatchFiles(fs) == {f \in fs : f.idx > made}

\* C19: a batch is pending, then requesting (once per attempt), then parsing,
\* then writing, in this order; files change only while the batch is writing,
\* which it enters only from a shape validation that accepted the parsed
\* response of a request of this batch; a batch that fails in its request,
\* its parse or its shape validation has written no file.
C19_BatchOrder ==
    [][/\ pc' # pc =>
            /\ pc' = "requesting" => pc \in {"pending", "awaiting", "received", "parsing"}
            /\ pc' = "awaiting" => pc = "requesting"
            /\ pc' = "received" => pc = "awaiting"
            /\ pc' = "parsing" => pc = "received"
            /\ pc' = "validating" => pc \in {"parsing", "requesting"}
            /\ pc' = "writing" =>
                  /\ pc = "validating"
                  /\ batchReqs >= 1
                  /\ raw.kind = "json"
                  /\ data = raw.val
                  /\ ShapeAccepted(data, k)
            /\ pc' = "pending" => pc \in {"start", "writing"}
       /\ (files' # files \/ writeLog' # writeLog) =>
            /\ pc = "writing"
            /\ \A f \in files' \ files : f.idx \in (made + 1)..(made + k)
       /\ pc \in {"pending", "requesting", "awaiting", "received", "parsing", "validating"} =>
            /\ BatchFiles(files) = {}
            /\ BatchFiles(files') = {} \/ pc' = "writing"
       /\ pc \in {"requesting", "awaiting", "received", "parsing", "validating"} /\ pc' = "failed" =>
            /\ files' = files
            /\ BatchFiles(files') = {}
      ]_vars

\* C19 witness: the second batch of a job failed in shape validation after
\* the first batch had written its files, and the job has no file of the
\* second batch.
C19_Witness ==
    /\ pc = "failed"
    /\ failReason = "shape"
    /\ batch_index = 2
    /\ made >= 1
    /\ files # {}
    /\ BatchFiles(files) = {}

\* ------------------------------------------------------------------ C20
\* The sum of the first n elements of a sequence of numbers.
RECURSIVE SumTo(_, _)
SumTo(q, n) == IF n = 0 THEN 0 ELSE SumTo(q, n - 1) + q[n]

\* C20: at most one completion request is in flight; a request is issued
\* only when none is in flight and the write loop of the previous batch is
\* over: `made` is then the sum of the sizes of the earlier batches and the
\* files of all of them exist, one caption file (and, when a TTS text was
\* read, one TTS file) for each index up to `made` and none beyond.
C20_OneRequestAtATime ==
    [][/\ inFlight \in {0, 1}
       /\ inFlight' \in {0, 1}
       /\ requests' # requests =>
            /\ requests' = requests + 1
            /\ inFlight = 0
            /\ inFlight' = 1
            /\ todo = <<>>
            /\ batch_index = Len(batchSizes)
            /\ made = SumTo(batchSizes, batch_index - 1)
            /\ global_variant_index = made
            /\ {f.idx : f \in files} = 1..made
            /\ \A i \in 1..made :
                  /\ \E f \in files : f.idx = i /\ f.kind = "caption"
                  /\ cfg.tts = "text" => \E f \in files : f.idx = i /\ f.kind = "tts"
      ]_vars

\* C20 witness: the request of the second batch is in flight after a first
\* batch of two variants was written and counted.
C20_Witness ==
    /\ pc = "awaiting"
    /\ inFlight = 1
    /\ batch_index = 2
    /\ batchSizes[1] = 2
    /\ made = 2
    /\ Cardinality({f \in files : f.kind = "caption"}) = 2

\* ------------------------------------------------------------------ C21
\* The job runs, and every completion request returns or raises: a step that
\* can be taken is taken in the end.  The host may fail to start the child;
\* a child that was started is not stopped from outside.
Progress == WF_vars(Next)

\* The jobs whose runs are followed to their end: caption-only jobs with
\* every total, per-request size and retry count of Configs, with and without
\* the credential.
LiveConfigs ==
    {c \in Configs : c.apiKey # "empty" /\ c.capOk /\ c.tts = "none"}

InitLive == Init /\ cfg \in LiveConfigs

SpecLive == InitLive /\ [][Next]_vars /\ Progress

\* The least integer not below a / b, for b > 0.
CeilDiv(a, b) == 0 - ((0 - a) \div b)

\* main is running.
Running ==
    pc \in {"pending", "requesting", "awaiting", "received", "parsing", "validating", "writing"}

\* C21 (as claimed, for a per-request size of at least one): the job issues
\* at most ceil(total / per-request size) * (retries + 1) requests.
C21_Original ==
    cfg.vpr >= 1 => requests <= CeilDiv(cfg.num, cfg.vpr) * (cfg.retries + 1)

\* C21: a running job reaches DONE or FAILED; `made` changes only at the end
\* of a batch, where it grows; a batch issues at most max(0, retries + 1)
\* requests and the job at most
\* max(0, ceil(total / max(1, per-request size))) * max(0, retries + 1).
C21_Terminates ==
    /\ Running ~> pc \in {"done", "failed"}
    /\ [][made' # made => pc = "writing" /\ todo = <<>> /\ made' > made]_vars
    /\ [](batchReqs <= Max(0, cfg.retries + 1))
    /\ [](requests <= Max(0, CeilDiv(cfg.num, Max(1, cfg.vpr))) * Max(0, cfg.retries + 1))

\* C21 witness: a job of two batches finished after it had used every
\* request it may issue.
C21_Witness ==
    /\ pc = "done"
    /\ cfg.retries >= 1
    /\ Len(batchSizes) = 2
    /\ requests = 2 * (cfg.retries + 1)
    /\ requests = CeilDiv(cfg.num, Max(1, cfg.vpr)) * (cfg.retries + 1)

\* ------------------------------------------------------------------ C22
\* The state of the quote scan of s at each position: st[i] tells whether
\* the character after position i lies inside a string literal, and whether
\* it is escaped by a backslash.
QuoteScan(s) ==
    LET st[i \in 0..Len(s)] ==
            IF i = 0 THEN [inside |-> FALSE, escaped |-> FALSE]
            ELSE IF ~st[i - 1].inside
                 THEN [inside |-> s[i] = "\"", escaped |-> FALSE]
            ELSE IF st[i - 1].escaped THEN [inside |-> TRUE, escaped |-> FALSE]
            ELSE [inside |-> s[i] # "\"", escaped |-> s[i] = "\\"]
    IN  st

\* The positions of s that hold the character c outside every string
\* literal, q being the quote scan of s.
Outside(s, q, c) == {i \in 1..Len(s) : s[i] = c /\ ~q[i - 1].inside}

\* The positions where a closing bracket outside strings brings both depths
\* (opening minus closing brackets outside strings so far) to zero.
SpanEnds(s) ==
    LET q == QuoteScan(s)
        objOpen == Outside(s, q, "{")
        objClose == Outside(s, q, "}")
        arrOpen == Outside(s, q, "[")
        arrClose == Outside(s, q, "]")
        UpTo(S, i) == Cardinality({j \in S : j <= i})
    IN  {i \in objClose \cup arrClose :
            /\ UpTo(objOpen, i) = UpTo(objClose, i)
            /\ UpTo(arrOpen, i) = UpTo(arrClose, i)}

Last(S) == CHOOSE i \in S : \A j \in S : j <= i

CutAfterLastSpan(s) == IF SpanEnds(s) = {} THEN s ELSE SubSeq(s, 1, Last(SpanEnds(s)))

BracePositions(s) == {i \in 1..Len(s) : s[i] = "}"}

ParseFailure == [ok |-> FALSE, val |-> JLit("null")]

\* C22: robust_parse_json returns the strict parse of the normalized text;
\* if that fails, the strict parse of the text cut after the last closing
\* bracket at which the depth scan (strings and escapes respected) is back
\* at zero; if that fails too, the strict parse of the text cut after its
\* last closing brace; it raises only when every attempt fails.
C22_ThreeAttempts ==
    step = "robust" =>
        LET s == Normalize(input.text)
            first == json_loads(s)
            second == json_loads(CutAfterLastSpan(s))
        IN  output.result =
                IF first.ok THEN first
                ELSE IF second.ok THEN second
                ELSE IF BracePositions(s) = {} THEN ParseFailure
                ELSE LET third == json_loads(SubSeq(s, 1, Last(BracePositions(s))))
                     IN  IF third.ok THEN third ELSE ParseFailure

\* C22 witness: an object followed by an empty array; the strict parse and
\* the parse of the text cut after the array fail, the parse of the text cut
\* after the last brace gives the object.
C22_Witness ==
    /\ step = "robust"
    /\ input.text = DocPlain \o <<"[", "]">>
    /\ ~json_loads(CutAfterLastSpan(input.text)).ok
    /\ output.result = [ok |-> TRUE, val |-> JObj(<< <<"k">> >>, <<JStr(<<"v">>)>>)]

\* ------------------------------------------------------------------ C23
\* The positions of s inside a string literal: after an opening quote that
\* is not itself inside a string, up to the closing quote, a quote after a
\* backslash escape not closing the string.
InsideString(s) == {i \in 1..Len(s) : QuoteScan(s)[i - 1].inside}

LineBreaks == {"\n", "\r"}

\* C23 (as claimed): every line feed and carriage return inside a string
\* literal is written as backslash, n; every other character is copied; the
\* output has no line feed or carriage return inside a string literal.
C23_NoBareLineBreak ==
    step = "escaped" =>
        LET s == input.text
            inside == InsideString(s)
            pieces == [i \in 1..Len(s) |->
                          IF i \in inside /\ s[i] \in LineBreaks THEN <<"\\", "n">>
                          ELSE <<s[i]>>]
        IN  /\ output.escaped = JoinAll(pieces)
            /\ \A i \in InsideString(output.escaped) : output.escaped[i] \notin LineBreaks

\* ------------------------------------------------------------------ C24
\* What the claim has normalize_quotes make of a character.
Straightened(c) ==
    IF c \in {"U+201C", "U+201D"} THEN "\""
    ELSE IF c \in {"U+2018", "U+2019"} THEN "'"
    ELSE c

\* C24 (as claimed): normalize_quotes replaces each typographic double quote
\* by the ASCII double quote and each typographic single quote by the ASCII
\* apostrophe, and leaves every other character unchanged.
C24_QuotesStraightened ==
    step = "quoted" =>
        output.quoted = [i \in 1..Len(input.text) |-> Straightened(input.text[i])]
\* ------------------------------------------------------------------ C25
\* Line 421 builds the failure from `raw` as it stands when the except clause
\* runs: raw[:800].  The text the final attempt produced is the one assigned
\* by that attempt's call (line 400 or 409); an attempt whose call raised
\* produced none.
FinalCallRaised == pc = "awaiting" /\ pc' = "failed"

\* C25: when a batch exhausts its retry budget, the failure carries the raw
\* text of the final failed attempt of that batch -- the empty string when that
\* attempt produced no text -- and never the text of an earlier attempt.
C25_FinalAttemptText ==
    [][/\ FinalCallRaised => raw' = EmptyText
       /\ (pc \in {"received", "parsing"} /\ pc' = "failed") => raw' = raw]_vars

\* ------------------------------------------------------------------ C26
\* The text add() is called with at this step, if it is called: the reasoning
\* of the chunk when it is shown, the content of the chunk.
AddStep == (spc = "rc" /\ spc' = "content") \/ (spc = "content" /\ spc' = "iter")
AddedText ==
    IF spc = "rc"
    THEN IF scfg.show_reasoning THEN TextOf(delta.reasoning_content) ELSE <<>>
    ELSE TextOf(delta.content)

Compact == scfg.stream_style = "compact"

\* The texts add() was called with in this request, in arrival order.
AddedTexts ==
    JoinAll([i \in 1..Len(received) |->
                (IF scfg.show_reasoning THEN TextOf(received[i].reasoning_content) ELSE <<>>)
                \o TextOf(received[i].content)])

\* The buffered chunks as one text; the display shows runs of blanks as one.
Buffered(b) == JoinAll(b)
Shown(text) == Collapse(text)

\* add() in compact mode: the whole buffer with the new chunk goes to the
\* display when more than 50 ms passed since the last flush or it is longer
\* than 400 characters, and else the chunk is kept in the buffer.
FlushRule ==
    [][(AddStep /\ Compact /\ AddedText # <<>>) =>
          LET all == Buffered(sp.buf) \o AddedText IN
          IF now' - sp.last_flush > 50 \/ Len(all) > 400
          THEN /\ stdout' = Append(stdout, Shown(all))
               /\ sp'.buf = <<>>
               /\ sp'.last_flush = now'
          ELSE /\ stdout' = stdout
               /\ Buffered(sp'.buf) = all
               /\ sp'.last_flush = sp.last_flush]_vars

\* close(): what remains goes to the display.
CloseRule ==
    [][(spc = "iter" /\ spc' = "returned") =>
          /\ sp'.buf = <<>>
          /\ stdout' = IF sp.buf = <<>> THEN stdout
                       ELSE Append(stdout, Shown(Buffered(sp.buf)))]_vars

\* What the first request of a job has displayed, once it is over.
AllDisplayed ==
    /\ sp.buf = <<>>
    /\ Shown(JoinAll(stdout)) = Shown(AddedTexts)

C30_SinkOfLastRequest ==
    /\ [][(spc' = "iter" /\ spc # "content" /\ streamReqs' # streamReqs /\ scfg.stream_log)
              => logfile' = <<>>]_vars
    /\ []((scfg.stream_log /\ streamReqs >= 1 /\ ChunksHandled)
              => logfile = JoinAll(ChunkTexts(received)))

\* ============================================================ Rewriter.run
\* src/aigc/rewriter_core.py.  run starts the CLI script as a child process
\* whose stdout and stderr are two pipes, hands every line it reads to a
\* callback and returns the exit status; stop may be called from another
\* thread.  The callbacks are those of app_gui.py, which put on msg_q.
PipeCap == 2
MaxWrite == 3

\* returncode of a child ended by terminate() or kill(): -SIGTERM, -SIGKILL
KilledStatuses == {0 - 15, 0 - 9}

outsideRun == <<pipelineVars, textVars, streamVars, guiVars>>

\* self.msg_q.put((ch, line))
Put(q, ch) == Append(q, ch)

\* The child has closed its ends of the pipes.
ChildEnded == child \in {"exited", "killed"}

\* A read of an attribute of self._proc while self._proc is None.
RaiseOnHandle ==
    /\ rpc' = "raised"
    /\ rerr' = "handle"

InitPipes ==
    /\ NoJob
    /\ NoStream
    /\ step = "off"
    /\ input = <<>>
    /\ output = <<>>
    /\ rpc = "idle"
    /\ rerr = "none"
    /\ proc = "none"
    /\ child = "none"
    /\ outLeft \in 0..MaxWrite
    /\ errLeft \in 0..MaxWrite
    /\ outBuf = 0
    /\ errBuf = 0
    /\ childCode \in {0, 1}
    /\ err_accum = 0
    /\ retcode = <<>>
    /\ stopPc = "idle"
    /\ msg_q = <<>>
    /\ running = FALSE
    /\ ui = "idle"
    /\ wpc = "none"
    /\ lastClick = "none"
    /\ jobs = 0

\* Lines 132-148: _build_cmd raises FileNotFoundError, or Popen raises.
RunBuildFails ==
    /\ rpc = "idle"
    /\ rpc' = "raised"
    /\ rerr' = "launch"
    /\ UNCHANGED <<outsideRun, proc, child, outLeft, errLeft, outBuf, errBuf, childCode,
                   err_accum, retcode, stopPc, msg_q>>

\* Lines 132-137: the command is built and announced.
RunBuild ==
    /\ rpc = "idle"
    /\ msg_q' = Put(msg_q, "out")
    /\ rpc' = "popen"
    /\ UNCHANGED <<outsideRun, rerr, proc, child, outLeft, errLeft, outBuf, errBuf, childCode,
                   err_accum, retcode, stopPc>>

\* Lines 139-148: self._proc = subprocess.Popen(...)
RunPopen ==
    /\ rpc = "popen"
    /\ proc' = "set"
    /\ child' = "running"
    /\ rpc' = "assert"
    /\ UNCHANGED <<outsideRun, rerr, outLeft, errLeft, outBuf, errBuf, childCode, err_accum,
                   retcode, stopPc, msg_q>>

\* Line 150: assert self._proc.stdout and self._proc.stderr
RunAssert ==
    /\ rpc = "assert"
    /\ IF proc = "none" THEN RaiseOnHandle ELSE rpc' = "open_out" /\ rerr' = rerr
    /\ UNCHANGED <<outsideRun, proc, child, outLeft, errLeft, outBuf, errBuf, childCode,
                   err_accum, retcode, stopPc, msg_q>>

\* Line 151: self._proc.stdout is evaluated once, when the loop starts.
RunOpenStdout ==
    /\ rpc = "open_out"
    /\ IF proc = "none" THEN RaiseOnHandle ELSE rpc' = "out" /\ rerr' = rerr
    /\ UNCHANGED <<outsideRun, proc, child, outLeft, errLeft, outBuf, errBuf, childCode,
                   err_accum, retcode, stopPc, msg_q>>

\* Lines 151-154: the next line of stdout, or its end when the pipe is empty
\* and the child has closed it; with the pipe empty and open the read blocks.
RunReadStdout ==
    /\ rpc = "out"
    /\ IF outBuf > 0
       THEN /\ outBuf' = outBuf - 1
            /\ msg_q' = Put(msg_q, "out")
            /\ rpc' = rpc
       ELSE /\ ChildEnded
            /\ rpc' = "open_err"
            /\ UNCHANGED <<outBuf, msg_q>>
    /\ UNCHANGED <<outsideRun, rerr, proc, child, outLeft, errLeft, errBuf, childCode,
                   err_accum, retcode, stopPc>>

\* Line 155: self._proc.stderr is evaluated once, when the loop starts.
RunOpenStderr ==
    /\ rpc = "open_err"
    /\ IF proc = "none" THEN RaiseOnHandle ELSE rpc' = "err" /\ rerr' = rerr
    /\ UNCHANGED <<outsideRun, proc, child, outLeft, errLeft, outBuf, errBuf, childCode,
                   err_accum, retcode, stopPc, msg_q>>

\* Lines 155-158: the next line of stderr, or its end.
RunReadStderr ==
    /\ rpc = "err"
    /\ IF errBuf > 0
       THEN /\ errBuf' = errBuf - 1
            /\ err_accum' = err_accum + 1
            /\ msg_q' = Put(msg_q, "err")
            /\ rpc' = rpc
       ELSE /\ ChildEnded
            /\ rpc' = "wait"
            /\ UNCHANGED <<errBuf, err_accum, msg_q>>
    /\ UNCHANGED <<outsideRun, rerr, proc, child, outLeft, errLeft, outBuf, childCode,
                   retcode, stopPc>>

\* Line 160: code = self._proc.wait()
RunWait ==
    /\ rpc = "wait"
    /\ IF proc = "none"
       THEN RaiseOnHandle /\ retcode' = retcode
       ELSE /\ ChildEnded
            /\ retcode' = <<childCode>>
            /\ rpc' = "clear"
            /\ rerr' = rerr
    /\ UNCHANGED <<outsideRun, proc, child, outLeft, errLeft, outBuf, errBuf, childCode,
                   err_accum, stopPc, msg_q>>

\* Line 161: self._proc = None
RunClear ==
    /\ rpc = "clear"
    /\ proc' = "none"
    /\ rpc' = "report"
    /\ UNCHANGED <<outsideRun, rerr, child, outLeft, errLeft, outBuf, errBuf, childCode,
                   err_accum, retcode, stopPc, msg_q>>

\* Lines 163-165: a failure that left nothing on stderr is reported; return.
RunReturn ==
    /\ rpc = "report"
    /\ msg_q' = IF retcode[1] # 0 /\ err_accum = 0 THEN Put(msg_q, "err") ELSE msg_q
    /\ rpc' = "returned"
    /\ UNCHANGED <<outsideRun, rerr, proc, child, outLeft, errLeft, outBuf, errBuf, childCode,
                   err_accum, retcode, stopPc>>

RunNext ==
    \/ RunBuildFails
    \/ RunBuild
    \/ RunPopen
    \/ RunAssert
    \/ RunOpenStdout
    \/ RunReadStdout
    \/ RunOpenStderr
    \/ RunReadStderr
    \/ RunWait
    \/ RunClear
    \/ RunReturn

\* The child writes a line to its stdout: the write blocks while the pipe
\* is full.
ChildWriteOut ==
    /\ child = "running"
    /\ outLeft > 0
    /\ outBuf < PipeCap
    /\ outLeft' = outLeft - 1
    /\ outBuf' = outBuf + 1
    /\ UNCHANGED <<outsideRun, rpc, rerr, proc, child, errLeft, errBuf, childCode, err_accum,
                   retcode, stopPc, msg_q>>

\* The child writes a line to its stderr.
ChildWriteErr ==
    /\ child = "running"
    /\ errLeft > 0
    /\ errBuf < PipeCap
    /\ errLeft' = errLeft - 1
    /\ errBuf' = errBuf + 1
    /\ UNCHANGED <<outsideRun, rpc, rerr, proc, child, outLeft, outBuf, childCode, err_accum,
                   retcode, stopPc, msg_q>>

\* The child has written everything and exits: both pipes are closed.
ChildExit ==
    /\ child = "running"
    /\ outLeft = 0
    /\ errLeft = 0
    /\ child' = "exited"
    /\ UNCHANGED <<outsideRun, rpc, rerr, proc, outLeft, errLeft, outBuf, errBuf, childCode,
                   err_accum, retcode, stopPc, msg_q>>

ChildNext ==
    \/ ChildWriteOut
    \/ ChildWriteErr
    \/ ChildExit

NextPipes ==
    \/ RunNext
    \/ ChildNext

\* The operating system schedules both processes: neither the parent nor the
\* child waits forever for a step it can take.
ProgressPipes == WF_vars(RunNext) /\ WF_vars(ChildNext)

SpecPipes == InitPipes /\ [][NextPipes]_vars /\ ProgressPipes

\* ----------------------------------------------------------- Rewriter.stop
\* Line 169, left operand: `self._proc and ...`
StopTest ==
    /\ stopPc = "idle"
    /\ rpc \notin {"returned", "raised"}
    /\ stopPc' = IF proc = "none" THEN "done" ELSE "poll"
    /\ UNCHANGED <<outsideRun, rpc, rerr, proc, child, outLeft, errLeft, outBuf, errBuf,
                   childCode, err_accum, retcode, msg_q>>

\* Line 169, right operand: self._proc.poll() is None -- self._proc is read
\* again.
StopPoll ==
    /\ stopPc = "poll"
    /\ stopPc' = IF proc = "none" THEN "raised"
                 ELSE IF child = "running" THEN "kill" ELSE "done"
    /\ UNCHANGED <<outsideRun, rpc, rerr, proc, child, outLeft, errLeft, outBuf, errBuf,
                   childCode, err_accum, retcode, msg_q>>

\* Lines 170-177: terminate() and kill(), every exception swallowed.
StopKill ==
    /\ stopPc = "kill"
    /\ IF proc = "set" /\ child = "running"
       THEN /\ child' = "killed"
            /\ childCode' \in KilledStatuses
       ELSE UNCHANGED <<child, childCode>>
    /\ stopPc' = "clear"
    /\ UNCHANGED <<outsideRun, rpc, rerr, proc, outLeft, errLeft, outBuf, errBuf, err_accum,
                   retcode, msg_q>>

\* Line 178: self._proc = None
StopClear ==
    /\ stopPc = "clear"
    /\ proc' = "none"
    /\ stopPc' = "done"
    /\ UNCHANGED <<outsideRun, rpc, rerr, child, outLeft, errLeft, outBuf, errBuf, childCode,
                   err_accum, retcode, msg_q>>

StopNext ==
    \/ StopTest
    \/ StopPoll
    \/ StopKill
    \/ StopClear

NextRun ==
    \/ NextPipes
    \/ StopNext

SpecRun == InitPipes /\ [][NextRun]_vars

\* ------------------------------------------------------------------ C27
\* C27 (as claimed): run takes no line of stderr before stdout has reached its
\* end, and once the child runs, run eventually returns the status the child
\* exits with, however many lines the child writes to either stream.
C27_RunReturnsStatus ==
    /\ [][errBuf' < errBuf => (outBuf = 0 /\ ChildEnded)]_vars
    /\ (child = "running") ~> (rpc = "returned" /\ retcode = <<childCode>>)

\* ------------------------------------------------------------------ C28
\* C28 (as claimed): whenever stop runs in another thread while run is in
\* progress, run does not raise on the process handle that stop cleared.
C28_RunSurvivesStop == ~(rpc = "raised" /\ rerr = "handle")

\* ============================================================ Tkinter host
\* src/aigc/app_gui.py.  The UI thread runs _start (a click on Start) and
\* _poll_queue (every 50 ms) one at a time; _start runs Rewriter.run on a
\* worker thread, which talks to the UI thread through msg_q only.
MaxJobs == 2

outsideGui == <<pipelineVars, textVars, streamVars>>
runVars == <<rpc, rerr, proc, child, outLeft, errLeft, outBuf, errBuf, childCode, err_accum,
             retcode, stopPc>>

InitGui ==
    /\ NoJob
    /\ NoStream
    /\ step = "off"
    /\ input = <<>>
    /\ output = <<>>
    /\ NoEmbed

\* Lines 197-199: a click while a job runs.
StartRefused ==
    /\ ui = "idle"
    /\ running
    /\ lastClick' = "refused"
    /\ UNCHANGED <<outsideGui, runVars, msg_q, running, ui, wpc, jobs>>

\* Lines 201-234: an input is missing or wrong: an error box, or int()/float()
\* raises in the callback; nothing is started.
StartInvalid ==
    /\ ui = "idle"
    /\ ~running
    /\ lastClick' = "invalid"
    /\ UNCHANGED <<outsideGui, runVars, msg_q, running, ui, wpc, jobs>>

\* Lines 196-257 with valid inputs: running is set, then the worker thread is
\* created and started on a new Rewriter and, later, a new child.
StartJob ==
    /\ ui = "idle"
    /\ ~running
    /\ jobs < MaxJobs
    /\ running' = TRUE
    /\ lastClick' = "started"
    /\ jobs' = jobs + 1
    /\ wpc' = "run"
    /\ rpc' = "idle"
    /\ rerr' = "none"
    /\ proc' = "none"
    /\ child' = "none"
    /\ outLeft' \in 0..MaxWrite
    /\ errLeft' \in 0..MaxWrite
    /\ outBuf' = 0
    /\ errBuf' = 0
    /\ childCode' \in {0, 1}
    /\ err_accum' = 0
    /\ retcode' = <<>>
    /\ UNCHANGED <<outsideGui, stopPc, msg_q, ui>>

StartNext ==
    \/ StartRefused
    \/ StartInvalid
    \/ StartJob

\* Line 249: run returned.
WorkerDone ==
    /\ wpc = "run"
    /\ rpc = "returned"
    /\ msg_q' = Put(msg_q, "out")
    /\ wpc' = "finally"
    /\ UNCHANGED <<outsideGui, runVars, running, ui, lastClick, jobs>>

\* Lines 250-251: run raised.
WorkerError ==
    /\ wpc = "run"
    /\ rpc = "raised"
    /\ msg_q' = Put(msg_q, "err")
    /\ wpc' = "finally"
    /\ UNCHANGED <<outsideGui, runVars, running, ui, lastClick, jobs>>

\* Line 253
WorkerStatus ==
    /\ wpc = "finally"
    /\ msg_q' = Put(msg_q, "status")
    /\ wpc' = "flag"
    /\ UNCHANGED <<outsideGui, runVars, running, ui, lastClick, jobs>>

\* Line 254: the last statement of the thread.
WorkerStopflag ==
    /\ wpc = "flag"
    /\ msg_q' = Put(msg_q, "stopflag")
    /\ wpc' = "ended"
    /\ UNCHANGED <<outsideGui, runVars, running, ui, lastClick, jobs>>

WorkerNext ==
    \/ WorkerDone
    \/ WorkerError
    \/ WorkerStatus
    \/ WorkerStopflag

\* Line 276 / 34: the timer calls _poll_queue.
PollBegin ==
    /\ ui = "idle"
    /\ ui' = "polling"
    /\ UNCHANGED <<outsideGui, runVars, msg_q, running, wpc, lastClick, jobs>>

\* Lines 265-273: one message is taken and handled.
PollGet ==
    /\ ui = "polling"
    /\ msg_q # <<>>
    /\ msg_q' = Tail(msg_q)
    /\ running' = IF Head(msg_q) = "stopflag" THEN FALSE ELSE running
    /\ UNCHANGED <<outsideGui, runVars, ui, wpc, lastClick, jobs>>

\* Lines 274-276: queue.Empty ends the loop and the next call is scheduled.
PollEmpty ==
    /\ ui = "polling"
    /\ msg_q = <<>>
    /\ ui' = "idle"
    /\ UNCHANGED <<outsideGui, runVars, msg_q, running, wpc, lastClick, jobs>>

PollNext ==
    \/ PollBegin
    \/ PollGet
    \/ PollEmpty

NextGui ==
    \/ StartNext
    \/ WorkerNext
    \/ PollNext
    \/ NextPipes

\* Threads and processes are scheduled and the Tk timer keeps firing; nobody
\* has to click Start.
ProgressGui == ProgressPipes /\ WF_vars(WorkerNext) /\ WF_vars(PollNext)

SpecGui == InitGui /\ [][NextGui]_vars /\ ProgressGui

\* ------------------------------------------------------------------ C29
WorkerActive == wpc \in {"run", "finally", "flag"}

\* C29 (as claimed): a job is started only while none runs; running is set
\* when the worker starts and cleared only when the UI thread takes the
\* stopflag message, which is the last thing a worker puts; and after every
\* start running eventually becomes false again.
C29_OneJobNeverLocked ==
    /\ [][jobs' # jobs => (~running /\ ~WorkerActive /\ running' /\ wpc' = "run")]_vars
    /\ [](WorkerActive => running)
    /\ [][running /\ ~running' => (ui = "polling" /\ Head(msg_q) = "stopflag")]_vars
    /\ [](\A i \in 1..Len(msg_q) :
              msg_q[i] = "stopflag" => (i = Len(msg_q) /\ wpc = "ended"))
    /\ running ~> ~running

====
